---- MODULE Spec2Model ----
(***************************************************************************)
(* A model of the video processing pipeline of video-sub-agent:            *)
(*   app/database/manager.py   the JSON record store (DatabaseManager)     *)
(*   app/subtitle.py           SubtitleExtractor.extract                   *)
(*   app/subtitle/extractor.py SubtitleExtractor.extract_embedded/_all     *)
(*   app/metadata.py           MetadataManager.fetch_metadata              *)
(*   app/metadata/manager.py   MetadataManager.fetch_metadata              *)
(*   app/metadata/fetcher.py   MetadataFetcher                             *)
(*   app/subtitle/ocr_extractor.py  create_srt_content, _format_timestamp  *)
(*   app/movie_name/recognizer.py   MovieNameRecognizer.recognize          *)
(*   app/processor.py          VideoProcessor                              *)
(*   app/cli.py, app/api/endpoints.py, test_anime_file.py,                 *)
(*   test_anime_dir.py         the entry points                            *)
(*                                                                         *)
(* Everything outside the process (the file system, ffprobe/ffmpeg, the    *)
(* metadata and subtitle services) is an input of the action that consumes *)
(* it, drawn from the bounded sets below.                                  *)
(***************************************************************************)
EXTENDS Integers, Sequences, FiniteSets, TLC

VARIABLES
    db,       \* the store file data/videos.json: [json, videos]
    job,      \* the running batch_process_videos / directory loop, or Idle
    call,     \* the running process_video and the stage it is at, or NoCall
    last,     \* what the last finished operation did and returned
    fs,       \* "reliable": the store file can always be written;
              \* "faulty": a write of the store file can fail
    cascade,  \* app/subtitle/extractor.py on its own: the media one call is
              \* given and what the call found
    unit,     \* a function of the repository called on its own: its
              \* arguments and what it returned
    workers   \* the requests the API server works on concurrently, each at
              \* its place in process_video or delete_video

vars == <<db, job, call, last, fs, cascade, unit, workers>>

\* what the pipeline never changes
env == <<fs, cascade, unit, workers>>

----------------------------------------------------------------------------
(* Bounds of the model *)

MaxStreams == 2       \* subtitle streams a container holds
MaxCandidates == 1    \* candidates a remote subtitle search returns
MaxSearchResults == 2 \* candidates of a search, when the search is run alone
MaxBatch == 2         \* paths in one batch request
MaxSidecars == 2      \* subtitle files next to a video
MaxNames == 1         \* names in one list of genres or actors of a provider
MaxSamples == 2       \* frames with their text that one OCR run hands over

----------------------------------------------------------------------------
(* Python values *)

\* None, where a dict is expected
None == [none |-> TRUE]
\* None, where a string is expected
NoneStr == "None"
NoYear == 0

Truthy(d) == d # None /\ DOMAIN d # {}

\* d.get(k) of a dict with string values
Get(d, k) == IF k \in DOMAIN d THEN d[k] ELSE NoneStr

RECURSIVE SeqsUpTo(_, _)
SeqsUpTo(S, n) ==
    IF n = 0 THEN {<<>>}
    ELSE LET shorter == SeqsUpTo(S, n - 1)
         IN shorter \cup {Append(s, x) : s \in {t \in shorter : Len(t) = n - 1}, x \in S}

----------------------------------------------------------------------------
(* The file system the program runs on *)

PathA == "/m/A [1999]/a.mkv"
PathGone == "/m/C/gone.mkv"
Paths == {PathA, PathGone}
\* an argument that is not a str (None): what a caller of the Python API,
\* which checks no types, can pass as a path
NotAPath == "<None>"
Arguments == Paths \cup {NotAPath}
\* the video files that exist on disk
OnDisk == {PathA}
Directories == {"/m/A [1999]", "/m/C"}

\* os.path.exists
exists(path) == path \in OnDisk \/ path \in Directories

\* os.path.dirname
dirname(path) ==
    CASE path = PathA -> "/m/A [1999]"
      [] path = PathGone -> "/m/C"
      [] OTHER -> ""

\* os.path.basename
basename(path) ==
    CASE path = "/m/A [1999]" -> "A [1999]"
      [] path = "/m/C" -> "C"
      [] path = PathA -> "a.mkv"
      [] path = PathGone -> "gone.mkv"
      [] OTHER -> path

\* parent_dir.split("[")[0].strip()
movie_name_of(parent_dir) ==
    CASE parent_dir = "A [1999]" -> "A"
      [] OTHER -> parent_dir

\* the names of directories, and the characters of each
DirNames ==
    {"A [1999]", "C", "A [199]", "A [0000]", "A [1999][2001]", "A [1999] [2001]",
     "A [1999] x"}
chars(parent_dir) ==
    CASE parent_dir = "A [1999]" -> <<"A", " ", "[", "1", "9", "9", "9", "]">>
      [] parent_dir = "C" -> <<"C">>
      [] parent_dir = "A [199]" -> <<"A", " ", "[", "1", "9", "9", "]">>
      [] parent_dir = "A [0000]" -> <<"A", " ", "[", "0", "0", "0", "0", "]">>
      [] parent_dir = "A [1999][2001]" ->
            <<"A", " ", "[", "1", "9", "9", "9", "]", "[", "2", "0", "0", "1", "]">>
      [] parent_dir = "A [1999] [2001]" ->
            <<"A", " ", "[", "1", "9", "9", "9", "]", " ", "[", "2", "0", "0", "1", "]">>
      [] parent_dir = "A [1999] x" ->
            <<"A", " ", "[", "1", "9", "9", "9", "]", " ", "x">>
      [] OTHER -> <<>>

\* str.split(sep) with a separator of one character
RECURSIVE split(_, _)
split(s, sep) ==
    IF \A i \in 1..Len(s) : s[i] # sep THEN <<s>>
    ELSE LET i == CHOOSE k \in 1..Len(s) :
                      s[k] = sep /\ \A j \in 1..(k - 1) : s[j] # sep
         IN <<SubSeq(s, 1, i - 1)>> \o split(SubSeq(s, i + 1, Len(s)), sep)

\* str.isdigit and int(str)
DigitOf(c) ==
    CASE c = "0" -> 0 [] c = "1" -> 1 [] c = "2" -> 2 [] c = "9" -> 9 [] OTHER -> -1
isdigit(s) == s # <<>> /\ \A i \in 1..Len(s) : DigitOf(s[i]) >= 0
RECURSIVE int(_)
int(s) ==
    IF s = <<>> THEN 0 ELSE 10 * int(SubSeq(s, 1, Len(s) - 1)) + DigitOf(s[Len(s)])

\* lines 237-246: of the pieces that follow a "[", the first that ends with
\* "]" and holds four digits before it, as an int; `if year:` takes 0 as none
year_of(parent_dir) ==
    LET name == chars(parent_dir)
        parts == split(name, "[")
        year_str(part) == SubSeq(part, 1, Len(part) - 1)
        years == {i \in 2..Len(parts) :
                     /\ parts[i] # <<>>
                     /\ parts[i][Len(parts[i])] = "]"
                     /\ isdigit(year_str(parts[i]))
                     /\ Len(year_str(parts[i])) = 4}
    IN IF years = {} THEN NoYear
       ELSE int(year_str(parts[CHOOSE i \in years : \A j \in years : i <= j]))

\* Path(target_dir).glob("*.mkv"), the video files of a directory
video_files(directory) ==
    CASE directory = "/m/A [1999]" -> <<PathA>>
      [] OTHER -> <<>>

----------------------------------------------------------------------------
(* app/database/manager.py: the JSON store *)

\* the store file: whether its text is JSON, and the "videos" list it holds
EmptyDb == [json |-> TRUE, videos |-> <<>>]
\* a file left behind by a write that broke off
Truncated == [json |-> FALSE, videos |-> <<>>]

WriteOutcomes(mode) ==
    IF mode = "faulty" THEN {"ok", "open_failed", "dump_failed"} ELSE {"ok"}

\* json.load of the file; any exception is logged and an empty store returned
_load_db(file) == IF file.json THEN file.videos ELSE <<>>

\* open(file, "r"): the read of one call can fail while the file is whole
\* (no descriptor left, an I/O error, the file locked by another program)
ReadOutcomes(mode) == IF mode = "faulty" THEN {"ok", "failed"} ELSE {"ok"}
\* the file as the call whose read went this way sees it
Seen(file, read) ==
    IF read = "failed" THEN [json |-> FALSE, videos |-> file.videos] ELSE file
\* the file after a call that saw it as `seen` and left `after`: a call that
\* wrote nothing left the file as it is
Left(file, seen, after) == IF after = seen THEN file ELSE after

\* the records of the other paths, in their order, as a reader finds them
Others(file, video_path) ==
    SelectSeq(_load_db(file), LAMBDA video : video.path # video_path)

\* open(file, "w") and json.dump; any exception is logged and swallowed.
\* A failed open leaves the file as it was, a failed dump leaves it truncated.
_save_db(file, videos, write) ==
    CASE write = "ok" -> [json |-> TRUE, videos |-> videos]
      [] write = "open_failed" -> file
      [] write = "dump_failed" -> Truncated

\* the index of the first record of path, 0 when there is none
IndexOfPath(videos, path) ==
    IF \E i \in 1..Len(videos) : videos[i].path = path
    THEN CHOOSE i \in 1..Len(videos) :
            /\ videos[i].path = path
            /\ \A j \in 1..(i - 1) : videos[j].path # path
    ELSE 0

\* the mutant of is_video_processed that compares the wrong field
is_video_processed_by_name(file, video_path) ==
    LET videos == _load_db(file)
    IN \E i \in 1..Len(videos) : videos[i].name = video_path

is_video_processed(file, video_path) ==
    LET videos == _load_db(file)
    IN \E i \in 1..Len(videos) : videos[i].path = video_path

get_video_info(file, video_path) ==
    LET videos == _load_db(file)
        i == IndexOfPath(videos, video_path)
    IN IF i = 0 THEN None ELSE videos[i]

\* the mutant of save_video_info that adds a record without looking for one
save_video_info_append(file, video_info, write) ==
    _save_db(file, Append(_load_db(file), video_info), write)

save_video_info(file, video_info, write) ==
    LET videos == _load_db(file)
        i == IndexOfPath(videos, video_info.path)
    IN IF i # 0
       THEN _save_db(file, [videos EXCEPT ![i] = video_info], write)
       ELSE _save_db(file, Append(videos, video_info), write)

\* [deleted, file]
delete_video(file, video_path, write) ==
    LET videos == _load_db(file)
        kept == SelectSeq(videos, LAMBDA video : video.path # video_path)
    IN IF Len(kept) < Len(videos)
       THEN [deleted |-> TRUE, file |-> _save_db(file, kept, write)]
       ELSE [deleted |-> FALSE, file |-> file]

----------------------------------------------------------------------------
(* app/subtitle.py: SubtitleExtractor.extract *)

NoTag == "absent"
StreamTags == {NoTag, "en"}
\* a subtitle stream as ffprobe reports it, with the exit status ffmpeg
\* will have when asked to extract it
Streams == [language : StreamTags, rc : {0, 1}]

\* stream.get("tags", {}).get("language", "unknown")
language_of(stream) == IF stream.language = NoTag THEN "unknown" ELSE stream.language

NoSubtitles == [source_type |-> "none", subtitles |-> <<>>]

\* what ffprobe does on a path: it raises (the tool is missing, its output
\* is not JSON), exits non-zero, or lists the subtitle streams
ProbeOutcomes(path) ==
    {[raised |-> TRUE, rc |-> 1, streams |-> <<>>], [raised |-> FALSE, rc |-> 1, streams |-> <<>>]}
    \cup (IF exists(path)
          THEN {[raised |-> FALSE, rc |-> 0, streams |-> ss] : ss \in SeqsUpTo(Streams, MaxStreams)}
          ELSE {})

\* the loop of extract over data["streams"]
RECURSIVE extract_streams(_, _, _)
extract_streams(video_path, streams, subtitles) ==
    IF streams = <<>> THEN subtitles
    ELSE LET stream == Head(streams)
             language == language_of(stream)
             output_path == <<video_path, language>>
         IN extract_streams(video_path, Tail(streams),
                IF stream.rc = 0
                THEN Append(subtitles, [language |-> language, content_path |-> output_path])
                ELSE subtitles)

\* the mutant of extract that reports "embedded" whenever there are streams
extract_embedded_if_streams(video_path, probe) ==
    IF probe.raised THEN NoSubtitles
    ELSE IF probe.rc # 0 THEN NoSubtitles
    ELSE IF probe.streams = <<>> THEN NoSubtitles
    ELSE [source_type |-> "embedded",
          subtitles |-> extract_streams(video_path, probe.streams, <<>>)]

extract(video_path, probe) ==
    IF probe.raised THEN NoSubtitles
    ELSE IF probe.rc # 0 THEN NoSubtitles
    ELSE IF probe.streams = <<>> THEN NoSubtitles
    ELSE LET subtitles == extract_streams(video_path, probe.streams, <<>>)
         IN IF subtitles # <<>>
            THEN [source_type |-> "embedded", subtitles |-> subtitles]
            ELSE NoSubtitles

----------------------------------------------------------------------------
(* app/subtitle/extractor.py: SubtitleExtractor *)

SubtitleExtensions == <<".srt", ".ass", ".ssa", ".sub", ".smi", ".vtt">>
NoCode == ""
\* the two-letter codes of the language-coded files (movie.en.srt)
SidecarCodes == {"en"}
\* a video whose name holds characters that glob reads as a pattern
PathBracket == "/m/B/b [1080p].mkv"

\* Path(video_path).stem
stem(video_path) ==
    CASE video_path = PathA -> "a"
      [] video_path = PathBracket -> "b [1080p]"
      [] OTHER -> video_path

\* whether a name holds one of the characters *, ? and [ (glob.has_magic)
has_magic(name) == name = "b [1080p]"
\* a subtitle file next to the video: movie<ext> or movie.<code><ext>
SidecarFiles ==
    [ext : {SubtitleExtensions[e] : e \in 1..Len(SubtitleExtensions)},
     code : {NoCode} \cup SidecarCodes]

\* the media one call works on: what ffprobe reports, the files next to the
\* video, and CCExtractor (installed or not, its exit status, and whether
\* it left its output file)
Media ==
    [probe : ProbeOutcomes(PathA),
     files : {fs_ \in SUBSET SidecarFiles : Cardinality(fs_) <= MaxSidecars},
     cc : {[has_ccextractor |-> FALSE, rc |-> 1, output |-> FALSE],
           [has_ccextractor |-> TRUE, rc |-> 1, output |-> FALSE],
           [has_ccextractor |-> TRUE, rc |-> 0, output |-> FALSE],
           [has_ccextractor |-> TRUE, rc |-> 0, output |-> TRUE]}]

\* the loop of extract_embedded over probe['streams']
RECURSIVE embedded_streams(_, _, _, _)
embedded_streams(video_path, streams, stream_index, results) ==
    IF stream_index > Len(streams) THEN results
    ELSE LET stream == streams[stream_index]
             language == language_of(stream)
             output_path == <<video_path, language, stream_index>>
         IN embedded_streams(video_path, streams, stream_index + 1,
                IF stream.rc = 0
                THEN Append(results, [language |-> language,
                                      source_type |-> "embedded",
                                      content_path |-> output_path])
                ELSE results)

\* [raised, results]: ffmpeg.Error (ffprobe exits non-zero) gives [], any
\* other exception of ffmpeg.probe leaves the method
extract_embedded(video_path, probe) ==
    IF probe.raised THEN [raised |-> TRUE, results |-> <<>>]
    ELSE IF probe.rc # 0 THEN [raised |-> FALSE, results |-> <<>>]
    ELSE [raised |-> FALSE,
          results |-> embedded_streams(video_path, probe.streams, 1, <<>>)]

\* Path(video_dir).glob(f"{video_name}.??{ext}") as artifacts
RECURSIVE coded_files(_, _, _)
coded_files(video_path, ext, codes) ==
    IF codes = {} THEN <<>>
    ELSE LET lang_code_ == CHOOSE c \in codes : TRUE
         IN <<[language |-> lang_code_, source_type |-> "external",
               content_path |-> <<video_path, lang_code_, ext>>]>>
            \o coded_files(video_path, ext, codes \ {lang_code_})

\* the loop of extract_external over subtitle_extensions
RECURSIVE external_files(_, _, _, _)
external_files(video_path, files, e, results) ==
    IF e > Len(SubtitleExtensions) THEN results
    ELSE LET ext == SubtitleExtensions[e]
             exact == IF [ext |-> ext, code |-> NoCode] \in files
                      THEN <<[language |-> "unknown", source_type |-> "external",
                              content_path |-> <<video_path, NoCode, ext>>]>>
                      ELSE <<>>
             \* Path(video_dir).glob(f"{video_name}.??{ext}"): the name of the
             \* video is part of the pattern, and "[1080p]" in a pattern stands
             \* for one character, so that the pattern does not match the
             \* files that carry the name itself
             codes == IF has_magic(stem(video_path)) THEN {}
                      ELSE {f.code : f \in {g \in files : g.ext = ext /\ g.code # NoCode}}
         IN external_files(video_path, files, e + 1,
                results \o exact \o coded_files(video_path, ext, codes))

extract_external(video_path, files) == external_files(video_path, files, 1, <<>>)

extract_closed_captions(video_path, cc) ==
    IF ~cc.has_ccextractor THEN <<>>
    ELSE IF cc.rc = 0 /\ cc.output
    THEN <<[language |-> "unknown", source_type |-> "closed_caption",
            content_path |-> <<video_path, "cc">>]>>
    ELSE <<>>

\* the mutant of extract_all that looks for files next to the video only
\* when the container gave nothing
extract_all_embedded_first(video_path, media) ==
    LET embedded_subs == extract_embedded(video_path, media.probe)
        external_subs == IF embedded_subs.results = <<>>
                         THEN extract_external(video_path, media.files) ELSE <<>>
        results == embedded_subs.results \o external_subs
    IN IF embedded_subs.raised
       THEN [raised |-> TRUE, results |-> <<>>, decoder |-> FALSE]
       ELSE IF results = <<>> /\ media.cc.has_ccextractor
       THEN [raised |-> FALSE, decoder |-> TRUE,
             results |-> results \o extract_closed_captions(video_path, media.cc)]
       ELSE [raised |-> FALSE, results |-> results, decoder |-> FALSE]

\* the mutant of extract_all that runs the decoder whatever was found
extract_all_with_captions(video_path, media) ==
    LET embedded_subs == extract_embedded(video_path, media.probe)
        external_subs == extract_external(video_path, media.files)
        results == embedded_subs.results \o external_subs
    IN IF embedded_subs.raised
       THEN [raised |-> TRUE, results |-> <<>>, decoder |-> FALSE]
       ELSE IF media.cc.has_ccextractor
       THEN [raised |-> FALSE, decoder |-> TRUE,
             results |-> results \o extract_closed_captions(video_path, media.cc)]
       ELSE [raised |-> FALSE, results |-> results, decoder |-> FALSE]

\* [raised, results, decoder]: decoder tells whether extract_closed_captions
\* was called
extract_all(video_path, media) ==
    LET embedded_subs == extract_embedded(video_path, media.probe)
        external_subs == extract_external(video_path, media.files)
        results == embedded_subs.results \o external_subs
    IN IF embedded_subs.raised
       THEN [raised |-> TRUE, results |-> <<>>, decoder |-> FALSE]
       ELSE IF results = <<>> /\ media.cc.has_ccextractor
       THEN [raised |-> FALSE, decoder |-> TRUE,
             results |-> results \o extract_closed_captions(video_path, media.cc)]
       ELSE [raised |-> FALSE, results |-> results, decoder |-> FALSE]

\* analyze_video: [raised, subtitle_streams]; a missing file raises
\* FileNotFoundError, a failing ffprobe or unreadable output RuntimeError
analyze_video(video_path, probe) ==
    IF ~exists(video_path) THEN [raised |-> TRUE, subtitle_streams |-> <<>>]
    ELSE IF probe.raised \/ probe.rc # 0 THEN [raised |-> TRUE, subtitle_streams |-> <<>>]
    ELSE [raised |-> FALSE, subtitle_streams |-> probe.streams]

\* the loop of extract_all_embedded_subtitles: a stream whose extraction
\* raises is logged and left out
RECURSIVE embedded_subtitles(_, _, _, _)
embedded_subtitles(video_path, subtitle_streams, i, results) ==
    IF i > Len(subtitle_streams) THEN results
    ELSE LET stream == subtitle_streams[i]
             language == language_of(stream)
         IN embedded_subtitles(video_path, subtitle_streams, i + 1,
                IF stream.rc = 0
                THEN Append(results, [path |-> <<video_path, language>>,
                                      format |-> "srt", language |-> language])
                ELSE results)

\* [raised, results]
extract_all_embedded_subtitles(video_path, probe) ==
    IF ~exists(video_path) THEN [raised |-> TRUE, results |-> <<>>]
    ELSE LET analysis == analyze_video(video_path, probe)
         IN IF analysis.raised THEN [raised |-> TRUE, results |-> <<>>]
            ELSE [raised |-> FALSE,
                  results |-> embedded_subtitles(video_path, analysis.subtitle_streams, 1, <<>>)]

\* [raised, results]: at most one result; a missing file, a missing
\* decoder and a non-zero exit status raise
extract_with_ccextractor(video_path, cc) ==
    IF ~exists(video_path) THEN [raised |-> TRUE, results |-> <<>>]
    ELSE IF ~cc.has_ccextractor THEN [raised |-> TRUE, results |-> <<>>]
    \* check=True: CalledProcessError, raised again as RuntimeError
    ELSE IF cc.rc # 0 THEN [raised |-> TRUE, results |-> <<>>]
    \* no output file: a warning, and None
    ELSE IF ~cc.output THEN [raised |-> FALSE, results |-> <<>>]
    ELSE [raised |-> FALSE,
          results |-> <<[path |-> <<video_path, "cc">>, format |-> "srt",
                         language |-> "unknown"]>>]

\* [raised, results, decoder]: both stages run inside try/except Exception;
\* decoder tells whether extract_with_ccextractor was called
extract_subtitles(video_path, media) ==
    LET embedded_results == extract_all_embedded_subtitles(video_path, media.probe)
        subtitles == IF embedded_results.raised THEN <<>> ELSE embedded_results.results
        cc_result == extract_with_ccextractor(video_path, media.cc)
    IN IF subtitles # <<>>
       THEN [raised |-> FALSE, results |-> subtitles, decoder |-> FALSE]
       ELSE IF cc_result.raised
       THEN [raised |-> FALSE, results |-> <<>>, decoder |-> TRUE]
       ELSE [raised |-> FALSE, results |-> cc_result.results, decoder |-> TRUE]

----------------------------------------------------------------------------
(* app/metadata.py: MetadataManager.fetch_metadata *)

TmdbData == [id |-> "603", title |-> "A"]
OmdbData == [Language |-> "Japanese"]
ImdbId == "tt0133093"

NoAnswer == [tmdb |-> None, imdb_id |-> NoneStr, omdb |-> None]

\* what the three provider calls of one fetch_metadata answer
ProviderOutcomes ==
    {[tmdb |-> None, imdb_id |-> NoneStr, omdb |-> None],
     [tmdb |-> TmdbData, imdb_id |-> NoneStr, omdb |-> None],
     [tmdb |-> TmdbData, imdb_id |-> ImdbId, omdb |-> None],
     [tmdb |-> TmdbData, imdb_id |-> ImdbId, omdb |-> OmdbData]}

\* lines 43-49: OMDB is asked when TMDB found the film and the bridge gave
\* its IMDb id
omdb_searched(providers) ==
    /\ Truthy(providers.tmdb)
    /\ "id" \in DOMAIN providers.tmdb
    /\ providers.imdb_id # NoneStr

\* the mutant of fetch_metadata that gives up when the bridge gives no id
fetch_metadata_needs_bridge(movie_name, year, providers) ==
    LET tmdb_data == providers.tmdb
        imdb_id == providers.imdb_id
        omdb_data == providers.omdb
    IN IF ~Truthy(tmdb_data) THEN None
       ELSE IF "id" \notin DOMAIN tmdb_data THEN None
       ELSE IF imdb_id = NoneStr THEN None
       ELSE IF ~Truthy(omdb_data) THEN tmdb_data
       ELSE IF "title" \notin DOMAIN tmdb_data THEN None
       ELSE [tmdb_id |-> tmdb_data.id,
             imdb_id |-> imdb_id,
             title |-> tmdb_data.title,
             language |-> Get(omdb_data, "Language")]

fetch_metadata(movie_name, year, providers) ==
    LET tmdb_data == providers.tmdb
        imdb_id == providers.imdb_id
        omdb_data == providers.omdb
    IN IF ~Truthy(tmdb_data) THEN None
       \* tmdb_data["id"]: the KeyError is caught, and None is returned
       ELSE IF "id" \notin DOMAIN tmdb_data THEN None
       ELSE IF imdb_id = NoneStr THEN tmdb_data
       ELSE IF ~Truthy(omdb_data) THEN tmdb_data
       \* tmdb_data["title"] in the merge: caught as well
       ELSE IF "title" \notin DOMAIN tmdb_data THEN None
       ELSE [tmdb_id |-> tmdb_data.id,
             imdb_id |-> imdb_id,
             title |-> tmdb_data.title,
             language |-> Get(omdb_data, "Language")]

\* what one provider does when it is asked
ProviderKinds ==
    {"unconfigured", "unreachable", "error_status", "no_match", "malformed", "ok"}

\* a JSON answer of TMDB and one of OMDB without the fields the callers read
MalformedTmdb == [id |-> "603"]
MalformedOmdb == [Error |-> "?"]

\* a provider and its answer: the payload it sends when it sends one
Answering(Payloads, malformed) ==
    {[kind |-> k, data |-> None] : k \in ProviderKinds \ {"ok", "malformed"}}
    \cup {[kind |-> "ok", data |-> d] : d \in Payloads}
    \cup {[kind |-> "malformed", data |-> malformed]}
NotConfigured == [kind |-> "unconfigured", data |-> None]

_search_tmdb(tmdb) ==
    IF tmdb.kind \in {"ok", "malformed"} THEN tmdb.data ELSE None

_get_imdb_id(tmdb, imdb_id) ==
    IF tmdb.kind \in {"ok", "malformed"} THEN imdb_id ELSE NoneStr

_search_omdb(omdb) ==
    IF omdb.kind \in {"ok", "malformed"} THEN omdb.data ELSE None

----------------------------------------------------------------------------
(* app/metadata/manager.py: MetadataManager.fetch_metadata *)

\* numbers of the payloads are written as strings; None is NoneStr
DeepseekPayloads == [title : {NoneStr, "X"}, runtime : {NoneStr, "100"}]
TmdbDetails ==
    [id : {"603"}, imdb_id : {NoneStr, ImdbId}, title : {NoneStr, "X"},
     runtime : {NoneStr, "95"}]
OmdbPayloads ==
    [Response : {"True"}, Title : {NoneStr, "Y"}, Runtime : {NoneStr, "120"},
     Rated : {NoneStr, "PG"}]

_generate_metadata_with_deepseek(deepseek) ==
    IF deepseek.kind = "ok" THEN deepseek.data ELSE None

\* the part of the record that comes from the details of TMDB
tmdb_update(tmdb) ==
    IF tmdb.kind = "ok"
    THEN [tmdb_id |-> tmdb.data.id,
          imdb_id |-> tmdb.data.imdb_id,
          title |-> tmdb.data.title,
          runtime |-> tmdb.data.runtime]
    \* no key, no id, no status 200, or a KeyError that is caught
    ELSE <<>>

\* the part that comes from OMDB, asked by the IMDb id of the record
omdb_update(metadata, omdb) ==
    IF /\ omdb.kind = "ok"
       /\ Get(metadata, "imdb_id") # NoneStr
       /\ Get(omdb.data, "Response") = "True"
    THEN [rated |-> Get(omdb.data, "Rated")]
    ELSE <<>>

\* lines 170-202: the IMDb id of the details of a film, None when the key is
\* missing, the request fails or the answer is not a 200
get_imdb_id(tmdb) ==
    IF tmdb.kind \in {"ok", "malformed"} THEN Get(tmdb.data, "imdb_id") ELSE NoneStr

\* line 265: if self.omdb_api_key and metadata.get("imdb_id")
omdb_requested(metadata, omdb) ==
    /\ omdb.kind # "unconfigured"
    /\ Get(metadata, "imdb_id") # NoneStr

\* the mutant of fetch_metadata that prefers the record of TMDB and OMDB
MetadataManager_fetch_metadata_structured_first(deepseek, tmdb, omdb) ==
    LET deepseek_metadata == _generate_metadata_with_deepseek(deepseek)
        metadata == tmdb_update(tmdb)
    IN IF Truthy(metadata) THEN omdb_update(metadata, omdb) @@ metadata
       ELSE IF Truthy(deepseek_metadata) THEN deepseek_metadata
       ELSE <<>>

MetadataManager_fetch_metadata(deepseek, tmdb, omdb) ==
    LET deepseek_metadata == _generate_metadata_with_deepseek(deepseek)
        metadata == tmdb_update(tmdb)
    IN IF Truthy(deepseek_metadata) THEN deepseek_metadata
       ELSE omdb_update(metadata, omdb) @@ metadata

\* the providers fetch_metadata sends a request to, in the order of the
\* requests: DeepSeek when it has a key (line 217), then, after the early
\* return of line 220, TMDB when it has a key (227) and OMDB (265)
providers_queried(deepseek, tmdb, omdb) ==
    LET deepseek_metadata == _generate_metadata_with_deepseek(deepseek)
        asked == IF deepseek.kind = "unconfigured" THEN <<>> ELSE <<"deepseek">>
    IN IF Truthy(deepseek_metadata) THEN asked
       ELSE asked
            \o (IF tmdb.kind = "unconfigured" THEN <<>> ELSE <<"tmdb">>)
            \o (IF omdb_requested(tmdb_update(tmdb), omdb) THEN <<"omdb">> ELSE <<>>)

----------------------------------------------------------------------------
(* app/metadata/fetcher.py: MetadataFetcher *)

GenreNames == {"Drama", " drama", "Comedy"}
ActorNames == {"Keanu", "keanu "}
\* the genres and the cast of TMDB are lists of objects with a name; Genre
\* and Actors of OMDB are the pieces that split(",") makes of the string
FetcherTmdb ==
    [title : {NoneStr, "X"}, overview : {NoneStr, "P"},
     genres : SeqsUpTo(GenreNames, MaxNames), cast : SeqsUpTo(ActorNames, MaxNames)]
FetcherOmdb ==
    [Title : {NoneStr, "Y"}, Plot : {NoneStr, "Q"},
     Genre : SeqsUpTo(GenreNames, MaxNames), Actors : SeqsUpTo(ActorNames, MaxNames)]

\* str.strip() on the names and texts the model uses
strip(name) ==
    CASE name = " drama" -> "drama"
      [] name = "  " -> ""
      [] name = " Unknown " -> "Unknown"
      [] name = " Totoro " -> "Totoro"
      [] name = "keanu " -> "keanu"
      [] OTHER -> name

\* d.get(k, []) of a dict, for a key that holds a list
GetList(d, k) == IF k \in DOMAIN d THEN d[k] ELSE <<>>

MetadataFetcher_fetch_metadata(tmdb, omdb) ==
    IF tmdb.kind = "unconfigured" /\ omdb.kind = "unconfigured"
    THEN [raised |-> TRUE, results |-> <<>>]
    ELSE LET answered == {source \in {"tmdb", "omdb"} :
                             LET p == IF source = "tmdb" THEN tmdb ELSE omdb
                             IN p.kind \in {"ok", "malformed"}}
         IN [raised |-> FALSE,
             results |-> [source \in answered |->
                             IF source = "tmdb" THEN tmdb.data ELSE omdb.data]]

\* of the common fields: title, plot, genres and actors
extract_common_metadata(metadata) ==
    LET from_tmdb ==
            IF "tmdb" \in DOMAIN metadata
            THEN LET tmdb_data == metadata["tmdb"]
                 IN [title |-> Get(tmdb_data, "title"),
                     genres |-> GetList(tmdb_data, "genres"),
                     actors |-> GetList(tmdb_data, "cast"),
                     plot |-> Get(tmdb_data, "overview")]
            ELSE [title |-> NoneStr, genres |-> <<>>, actors |-> <<>>, plot |-> NoneStr]
        stripped(names) == [i \in 1..Len(names) |-> strip(names[i])]
    IN IF "omdb" \in DOMAIN metadata
       THEN LET omdb_data == metadata["omdb"]
            IN [title |-> IF from_tmdb.title = NoneStr
                          THEN Get(omdb_data, "Title") ELSE from_tmdb.title,
                genres |-> IF from_tmdb.genres = <<>>
                           THEN stripped(GetList(omdb_data, "Genre"))
                           ELSE from_tmdb.genres,
                actors |-> IF from_tmdb.actors = <<>>
                           THEN stripped(GetList(omdb_data, "Actors"))
                           ELSE from_tmdb.actors,
                plot |-> IF from_tmdb.plot = NoneStr
                         THEN Get(omdb_data, "Plot") ELSE from_tmdb.plot]
       ELSE from_tmdb

----------------------------------------------------------------------------
(* app/subtitle/ocr_extractor.py: OCRSubtitleExtractor *)

\* the times of the samples, in milliseconds: a time t stands for the float
\* t / 1000 that the code works on
SampleTimes == {0, 300, 1001, 8001, 61500, 90000, 95000, 3661001}
\* end_time = start_time + 5.0
LastCue == 5000
\* what OCR read in a frame
Texts == {"", "  ", "Hi"}

\* the float of a sample, and the float start_time + 5.0 of the last cue
Seconds(t, plus) == [t |-> t, plus |-> plus]

\* int((seconds - int(seconds)) * 1000) in IEEE-754 double arithmetic, for the
\* times of the model: the doubles next to 1.001, 6.001, 8.001, 13.001 and
\* 5.3 lie below them, so that the product lies below the whole number of
\* milliseconds and int() cuts it down to the one before
float_millis(seconds) ==
    LET exact == (seconds.t + seconds.plus) % 1000
    IN CASE seconds.t \in {1001, 8001} -> exact - 1
         [] seconds.t = 300 /\ seconds.plus = LastCue -> exact - 1
         [] OTHER -> exact

\* f"{n:0{width}d}": the decimal digits of n, at least width of them
RECURSIVE digits(_, _)
digits(n, width) ==
    IF n < 10 /\ width <= 1 THEN <<n>>
    ELSE Append(digits(n \div 10, width - 1), n % 10)

\* "HH:MM:SS,mmm" as its four fields of digits
_format_timestamp(seconds) ==
    LET total == seconds.t + seconds.plus
        hours == total \div 3600000
        minutes == (total % 3600000) \div 60000
        whole_seconds == (total % 60000) \div 1000
        milliseconds == float_millis(seconds)
    IN <<digits(hours, 2), digits(minutes, 2), digits(whole_seconds, 2),
         digits(milliseconds, 3)>>

\* the document as the list of its cues: number, start --> end, text
create_srt_content(frame_texts) ==
    LET kept == SelectSeq(frame_texts, LAMBDA ft : strip(ft.text) # "")
    IN [i \in 1..Len(kept) |->
           [number |-> i,
            start |-> _format_timestamp(Seconds(kept[i].timestamp, 0)),
            end |-> IF i < Len(kept)
                    THEN _format_timestamp(Seconds(kept[i + 1].timestamp, 0))
                    ELSE _format_timestamp(Seconds(kept[i].timestamp, LastCue)),
            text |-> kept[i].text]]

----------------------------------------------------------------------------
(* app/processor.py: VideoProcessor._fetch_subtitles_from_web *)

CandidateLanguages == {"en", "ja"}
\* one search result: its language, whether it names a file id, and whether
\* the download of that file succeeds (status 200, a link, the file)
Candidates == [language : CandidateLanguages, file_id : BOOLEAN, download_ok : BOOLEAN]

\* the subtitle service as one call of _fetch_subtitles_from_web meets it
WebOutcomes ==
    {[api_key |-> FALSE, status |-> 200, data |-> <<>>],
     [api_key |-> TRUE, status |-> 401, data |-> <<>>]}
    \cup {[api_key |-> TRUE, status |-> 200, data |-> cs] : cs \in SeqsUpTo(Candidates, MaxCandidates)}

\* str.lower() on the language names the model uses
lower(s) ==
    CASE s = "Japanese" -> "japanese"
      [] s = "English" -> "english"
      [] s = "Korean" -> "korean"
      [] s = "Chinese" -> "chinese"
      [] s = "Hindi" -> "hindi"
      [] s = "Enets" -> "enets"
      [] s = "EN" -> "en"
      [] s \in {"Unknown", "UNKNOWN"} -> "unknown"
      [] s = "Unknown." -> "unknown."
      [] s = "Unknown movie" -> "unknown movie"
      [] s = "Totoro" -> "totoro"
      [] OTHER -> s

\* name[:2].lower() on the language names the model uses
first_two(name) ==
    CASE name = "english" -> "en"
      [] name = "japanese" -> "ja"
      [] name = "korean" -> "ko"
      [] name = "chinese" -> "ch"
      [] name = "hindi" -> "hi"
      [] name = "enets" -> "en"
      [] OTHER -> name

\* the mutant of lang_code without the table of language names
lang_code_first_two(name) == first_two(name)

\* language_map.get(name, name[:2].lower())
lang_code(name) ==
    CASE name = "korean" -> "ko"
      [] name = "chinese" -> "zh"
      [] name = "japanese" -> "ja"
      [] name = "french" -> "fr"
      [] name = "spanish" -> "es"
      [] name = "german" -> "de"
      [] name = "italian" -> "it"
      [] name = "russian" -> "ru"
      [] OTHER -> first_two(name)

languages_to_download(metadata) ==
    LET original_language == IF Truthy(metadata) /\ "language" \in DOMAIN metadata
                             THEN lower(metadata.language) ELSE ""
    IN IF original_language # "" /\ original_language # "english" /\ original_language # "en"
       THEN IF lang_code(original_language) # "en"
            THEN <<"en", lang_code(original_language)>>
            ELSE <<"en">>
       ELSE <<"en">>

InSeq(x, s) == \E i \in 1..Len(s) : s[i] = x

\* subtitles_by_lang: the first candidate of each wanted language, in the
\* order the languages first appear
RECURSIVE group_by_language(_, _, _)
group_by_language(data, wanted, chosen) ==
    IF data = <<>> THEN chosen
    ELSE LET sub == Head(data)
         IN group_by_language(Tail(data), wanted,
                IF InSeq(sub.language, wanted)
                   /\ ~\E i \in 1..Len(chosen) : chosen[i].language = sub.language
                THEN Append(chosen, sub) ELSE chosen)

\* the mutant of download_all that gives up at the first failure
RECURSIVE download_all_until_failure(_, _, _)
download_all_until_failure(video_path, chosen, downloaded) ==
    IF chosen = <<>> THEN downloaded
    ELSE LET subtitle == Head(chosen)
         IN IF subtitle.file_id /\ subtitle.download_ok
            THEN download_all_until_failure(video_path, Tail(chosen),
                     Append(downloaded, [language |-> subtitle.language,
                                         content_path |-> <<video_path, subtitle.language>>]))
            ELSE downloaded

\* the download loop: a candidate without file id, or whose download fails,
\* is skipped
RECURSIVE download_all(_, _, _)
download_all(video_path, chosen, downloaded) ==
    IF chosen = <<>> THEN downloaded
    ELSE LET subtitle == Head(chosen)
         IN download_all(video_path, Tail(chosen),
                IF subtitle.file_id /\ subtitle.download_ok
                THEN Append(downloaded, [language |-> subtitle.language,
                                         content_path |-> <<video_path, subtitle.language>>])
                ELSE downloaded)

\* imdb_id.replace("tt", "") on the ids of the model
without_tt(imdb_id) ==
    CASE imdb_id = "tt0133093" -> "0133093"
      [] imdb_id = "tt4016934" -> "4016934"
      [] OTHER -> imdb_id

\* the mutant of search_params that knows the directory's title only
search_params_by_name(video_info) ==
    [query |-> video_info.name, languages |-> <<"en">>]

\* lines 45-97: the parameters of the search request
search_params(video_info) ==
    LET movie_name == video_info.name
        metadata == video_info.metadata
        imdb_id == Get(metadata, "imdb_id")
        english_title == Get(metadata, "title")
        languages == languages_to_download(metadata)
    IN IF imdb_id # NoneStr
       THEN [imdb_id |-> without_tt(imdb_id), languages |-> languages]
       ELSE IF english_title # NoneStr
       THEN [query |-> english_title, languages |-> languages]
       ELSE [query |-> movie_name, languages |-> languages]

\* the search request one call makes, None when it returns before making it
search_request(video_info, web) ==
    IF ~web.api_key THEN None
    ELSE IF video_info.name = "" THEN None
    ELSE IF video_info.metadata = None THEN None
    ELSE IF Get(video_info.metadata, "language") = NoneStr
            /\ "language" \in DOMAIN video_info.metadata THEN None
    ELSE search_params(video_info)

\* None, or [source_type, subtitles]
_fetch_subtitles_from_web(video_info, web) ==
    IF ~web.api_key THEN None
    ELSE IF video_info.name = "" THEN None
    \* metadata.get("imdb_id") on None raises AttributeError: caught, None
    ELSE IF video_info.metadata = None THEN None
    \* metadata.get("language", "") is None: .lower() raises, caught, None
    ELSE IF Get(video_info.metadata, "language") = NoneStr
            /\ "language" \in DOMAIN video_info.metadata THEN None
    ELSE IF web.status # 200 THEN None
    ELSE IF web.data = <<>> THEN None
    ELSE LET wanted == languages_to_download(video_info.metadata)
             grouped == group_by_language(web.data, wanted, <<>>)
             subtitles_by_lang == IF grouped = <<>> THEN <<Head(web.data)>> ELSE grouped
             downloaded_subtitles == download_all(video_info.path, subtitles_by_lang, <<>>)
         IN IF downloaded_subtitles = <<>> THEN None
            ELSE [source_type |-> "web", subtitles |-> downloaded_subtitles]

----------------------------------------------------------------------------
(* app/movie_name/recognizer.py: MovieNameRecognizer *)

Filenames == {"A.1999.1080p.BluRay.mkv", "Totoro [1988].mkv"}

\* the regular expressions of clean_filename on the file names of the model
clean_filename(filename) ==
    CASE filename = "A.1999.1080p.BluRay.mkv" -> "A 1999"
      [] filename = "Totoro [1988].mkv" -> "Totoro"
      [] filename = "a.mkv" -> "a"
      [] filename = "gone.mkv" -> "gone"
      [] OTHER -> filename

\* data['choices'][0]['message']['content'] of an answer
Contents ==
    {"unknown", "Unknown", "UNKNOWN", " Unknown ", "Unknown.", "Unknown movie",
     "Totoro", " Totoro ", ""}
\* the recognition service: it answers with a content, or it is not reachable,
\* answers with an error status, or with a payload without choices
ServiceOutcomes ==
    {[kind |-> "ok", content |-> content] : content \in Contents}
    \cup {[kind |-> k, content |-> NoneStr] :
             k \in {"unreachable", "error_status", "malformed"}}

\* the mutant of recognize that compares the answer as it is written
recognize_as_written(filename, service) ==
    LET cleaned_name == clean_filename(filename)
    IN IF service.kind # "ok" THEN NoneStr
       ELSE LET official_name == strip(service.content)
            IN IF official_name = "unknown" THEN NoneStr ELSE official_name

recognize(filename, service) ==
    LET cleaned_name == clean_filename(filename)
    \* raise_for_status, a KeyError, a failed request: except Exception, None
    IN IF service.kind # "ok" THEN NoneStr
       ELSE LET official_name == strip(service.content)
            IN IF lower(official_name) = "unknown" THEN NoneStr ELSE official_name

\* lines 147-166: results[filename] = self.recognize(filename), item by item;
\* services[i] is what the service does when item i is recognized
RECURSIVE recognize_batch(_, _, _)
recognize_batch(filenames, services, results) ==
    IF filenames = <<>> THEN results
    ELSE LET filename == Head(filenames)
             official_name == recognize(filename, Head(services))
         IN recognize_batch(Tail(filenames), Tail(services),
                [f \in DOMAIN results \cup {filename} |->
                    IF f = filename THEN official_name ELSE results[f]])

----------------------------------------------------------------------------
(* app/processor.py: VideoProcessor.process_video, stage by stage *)

NoCalls == [fetch |-> 0, extract |-> 0, web |-> 0, ocr |-> 0, save |-> 0]
\* the number of artifacts each subtitle stage produced
NoYield == [extract |-> 0, web |-> 0]

\* the answers to the query by title and to the query by title and year;
\* the second is only made when the first found nothing and the directory
\* name holds a year
QueryOutcomes(parent_dir) ==
    {q \in ProviderOutcomes \X ProviderOutcomes :
        \/ q[2] = NoAnswer
        \/ /\ ~Truthy(fetch_metadata("", NoYear, q[1]))
           /\ year_of(parent_dir) # NoYear}

\* lines 226-263: [metadata, fetches, video_info]
get_metadata(video_path, q) ==
    LET parent_dir == basename(dirname(video_path))
        movie_name == movie_name_of(parent_dir)
        first == fetch_metadata(movie_name, NoYear, q[1])
        year == IF Truthy(first) THEN NoYear ELSE year_of(parent_dir)
        metadata == IF Truthy(first) THEN first
                    ELSE IF year # NoYear THEN fetch_metadata(movie_name, year, q[2])
                    ELSE first
    IN [fetches |-> IF year # NoYear THEN 2 ELSE 1,
        video_info |-> [path |-> video_path, name |-> movie_name,
                        status |-> "processing", metadata |-> metadata]]

\* the mutant of after_extract that always searches
after_extract_always_web(subtitle_result) == "web"

\* line 269: the remote search follows an extraction of source type "none"
after_extract(subtitle_result) ==
    IF subtitle_result.source_type = "none" THEN "web" ELSE "save"

\* lines 269-275: the result of the remote search replaces an empty
\* extraction result when it is not None
choose_subtitles(extracted, web_subtitle_result) ==
    IF extracted.source_type = "none" /\ web_subtitle_result # None
    THEN web_subtitle_result ELSE extracted

\* the mutant of update_video_info that takes an empty list for a failure
update_video_info_strict(video_info, subtitle_result) ==
    [path |-> video_info.path, name |-> video_info.name,
     status |-> IF subtitle_result.subtitles = <<>> THEN "error" ELSE "completed",
     metadata |-> video_info.metadata,
     subtitle_source |-> subtitle_result.source_type,
     subtitles |-> subtitle_result.subtitles]

\* the mutant of update_video_info that leaves the status as it is
update_video_info_in_progress(video_info, subtitle_result) ==
    [path |-> video_info.path, name |-> video_info.name,
     status |-> video_info.status, metadata |-> video_info.metadata,
     subtitle_source |-> subtitle_result.source_type,
     subtitles |-> subtitle_result.subtitles]

\* lines 278-282: video_info.update(...)
update_video_info(video_info, subtitle_result) ==
    [path |-> video_info.path, name |-> video_info.name,
     status |-> "completed", metadata |-> video_info.metadata,
     subtitle_source |-> subtitle_result.source_type,
     subtitles |-> subtitle_result.subtitles]

\* the mutant of on_exception without the except clause
on_exception_uncaught(video_path, e) ==
    [escaped |-> TRUE, result |-> None]

\* lines 290-296: except Exception as e
on_exception(video_path, e) ==
    [escaped |-> FALSE,
     result |-> [path |-> video_path, status |-> "error", error |-> e]]

----------------------------------------------------------------------------
(* The state machine *)

Idle == [kind |-> "idle"]
NoCall == [stage |-> "idle"]
Nothing == [op |-> "none"]
NotRun == [op |-> "none"]
NoCascade == [media |-> None, found |-> NotRun]
NoUnit == [fn |-> "none"]
NoWorkers == <<>>

Init ==
    /\ db = EmptyDb
    /\ job = Idle
    /\ call = NoCall
    /\ last = Nothing
    /\ fs = "reliable"
    /\ cascade = NoCascade
    /\ unit = NoUnit
    /\ workers = NoWorkers

InitFaults ==
    /\ db = EmptyDb
    /\ job = Idle
    /\ call = NoCall
    /\ last = Nothing
    /\ fs = "faulty"
    /\ cascade = NoCascade
    /\ unit = NoUnit
    /\ workers = NoWorkers

\* the records of a path in the store file, as an observer reads them
RecordsOf(file, path) ==
    IF file.json
    THEN SelectSeq(file.videos, LAMBDA video : video.path = path)
    ELSE <<>>

\* what an operation on one path did: c is the call, file' the store after it
Done(c, result, escaped, file_after) ==
    [op |-> c.op, path |-> c.path, force |-> c.force,
     stored |-> c.stored,          \* the path had a record before
     deleted |-> c.deleted,        \* that record was deleted first
     \* the call returned the record the path had
     returned_stored |-> (c.stored /\ result = c.record),
     unchanged |-> (file_after = c.before),   \* the store file is as before
     result |-> result, escaped |-> escaped, calls |-> c.calls,
     yield |-> c.yield,
     write |-> c.write]            \* how the write of the save went

\* process_video returns (or lets an exception escape) to its caller
Return(c, result, escaped, file_after) ==
    /\ call' = NoCall
    /\ IF job.kind = "batch"
       THEN LET results == Append(job.results, result)
            IN IF escaped
               THEN /\ job' = Idle
                    /\ last' = [op |-> job.op, paths |-> job.paths, status_code |-> 500,
                                results |-> <<>>, escaped |-> job.op = "batch_process_videos"]
               ELSE IF Len(results) = Len(job.paths)
               THEN /\ job' = Idle
                    /\ last' = [op |-> job.op, paths |-> job.paths, status_code |-> 200,
                                results |-> results, escaped |-> FALSE]
               ELSE /\ job' = [job EXCEPT !.results = results]
                    /\ last' = Nothing
       ELSE /\ last' = Done(c, result, escaped, file_after)
            /\ job' = IF job.kind = "dir" /\ Len(job.results) + 1 < Len(job.paths)
                      THEN [job EXCEPT !.results = Append(@, result)]
                      ELSE Idle

\* a caller that returns without calling process_video
Skip(c, result) ==
    /\ db' = db
    /\ Return(c, result, FALSE, db)

\* the activation of an entry point on a path, the store file being `before`
\* when it started and `file` when it calls process_video
Activation(op, path, force, before, file) ==
    [op |-> op, path |-> path, force |-> force,
     stored |-> RecordsOf(before, path) # <<>>,
     record |-> IF RecordsOf(before, path) # <<>>
                THEN Head(RecordsOf(before, path)) ELSE None,
     before |-> before,
     deleted |-> (RecordsOf(before, path) # <<>> /\ RecordsOf(file, path) = <<>>),
     stage |-> "fetch_metadata", video_info |-> None, subtitle_result |-> None,
     search |-> None,              \* the request of the remote search
     extracted |-> None,           \* what the extraction returned
     calls |-> NoCalls, yield |-> NoYield, write |-> "none"]

\* the mutant of Enter that stores the failure it returns
Enter_storing_failure(c, file) ==
    IF is_video_processed(file, c.path)
    THEN /\ db' = file
         /\ Return(c, get_video_info(file, c.path), FALSE, file)
    ELSE IF c.path = NotAPath
    THEN LET caught == on_exception(c.path, "TypeError")
             stored == save_video_info(file, caught.result, "ok")
         IN /\ db' = stored
            /\ Return(c, caught.result, caught.escaped, stored)
    ELSE /\ db' = file
         /\ call' = c
         /\ last' = Nothing
         /\ UNCHANGED job

\* lines 220-228: the already-processed check and the directory name
Enter(c, file) ==
    /\ db' = file
    /\ IF is_video_processed(file, c.path)
       THEN Return(c, get_video_info(file, c.path), FALSE, file)
       \* os.path.dirname of an argument that is not a path raises TypeError
       ELSE IF c.path = NotAPath
       THEN LET caught == on_exception(c.path, "TypeError")
            IN Return(c, caught.result, caught.escaped, file)
       ELSE /\ call' = c
            /\ last' = Nothing
            /\ UNCHANGED job

\* a direct call of VideoProcessor.process_video
ProcessVideo(video_path) ==
    /\ job = Idle /\ call = NoCall
    /\ Enter(Activation("process_video", video_path, FALSE, db, db), db)
    /\ UNCHANGED env

\* app/cli.py: the process command; click.Path(exists=True) refuses a
\* path that is not on disk
CliProcess(video_path, force) ==
    /\ job = Idle /\ call = NoCall
    /\ exists(video_path)
    /\ LET c == Activation("cli.process", video_path, force, db, db)
       IN IF ~force /\ is_video_processed(db, video_path)
          THEN Skip(c, None)
          ELSE IF force /\ is_video_processed(db, video_path)
          THEN \E write \in WriteOutcomes(fs) :
                 LET file == delete_video(db, video_path, write).file
                 IN Enter(Activation("cli.process", video_path, force, db, file), file)
          ELSE Enter(c, db)
    /\ UNCHANGED env

\* test_anime_file.py: main
AnimeFile(video_path, force) ==
    /\ job = Idle /\ call = NoCall
    /\ LET c == Activation("test_anime_file", video_path, force, db, db)
       IN IF ~force /\ is_video_processed(db, video_path)
          THEN Skip(c, get_video_info(db, video_path))
          ELSE Enter(c, db)
    /\ UNCHANGED env

\* test_anime_dir.py: main, up to its loop over the video files
AnimeDirStart(directory, force) ==
    /\ job = Idle /\ call = NoCall
    /\ exists(directory)
    /\ video_files(directory) # <<>>
    /\ job' = [kind |-> "dir", paths |-> video_files(directory), force |-> force, results |-> <<>>]
    /\ last' = Nothing
    /\ UNCHANGED <<db, call, env>>

\* test_anime_dir.py: one turn of the loop
AnimeDirStep ==
    /\ job.kind = "dir" /\ call = NoCall
    /\ LET video_path == job.paths[Len(job.results) + 1]
           c == Activation("test_anime_dir", video_path, job.force, db, db)
       IN IF ~job.force /\ is_video_processed(db, video_path)
          THEN Skip(c, None)
          ELSE Enter(c, db)
    /\ UNCHANGED env

\* batch_process_videos begins: results = []; op is the caller
Batch(op, video_paths) ==
    IF video_paths = <<>>
    THEN /\ job' = Idle
         /\ last' = [op |-> op, paths |-> video_paths, status_code |-> 200,
                     results |-> <<>>, escaped |-> FALSE]
    ELSE /\ job' = [kind |-> "batch", op |-> op, paths |-> video_paths, results |-> <<>>]
         /\ last' = Nothing

\* a direct call of VideoProcessor.batch_process_videos
BatchStart(video_paths) ==
    /\ job = Idle /\ call = NoCall
    /\ Batch("batch_process_videos", video_paths)
    /\ UNCHANGED <<db, call, env>>

\* def batch_process_videos(self, video_paths): the keywords a call may use
BatchParameters == {"video_paths"}
\* def process_video(self, video_path)
ProcessParameters == {"video_path"}

\* app/api/endpoints.py: POST /videos/process with a ProcessRequest. The
\* HTTPException(404) of the existence check is caught by the except
\* Exception of the handler and leaves as status 500; process_video is
\* called with video_path alone.
ApiProcess(video_path, extract_hardcoded) ==
    /\ job = Idle /\ call = NoCall
    /\ IF ~exists(video_path)
       THEN /\ last' = [op |-> "process_video_endpoint", paths |-> <<video_path>>,
                        extract_hardcoded |-> extract_hardcoded,
                        status_code |-> 500, detail |-> "404: Video file not found",
                        results |-> <<>>, escaped |-> FALSE]
            /\ job' = job
       ELSE /\ job' = [kind |-> "request", path |-> video_path,
                       extract_hardcoded |-> extract_hardcoded,
                       passed |-> {"video_path"}]
            /\ last' = Nothing
    /\ UNCHANGED <<db, call, env>>

\* the handler calls process_video
ApiProcessStep ==
    /\ job.kind = "request" /\ call = NoCall
    /\ job.passed \subseteq ProcessParameters
    /\ Enter(Activation("process_video_endpoint", job.path, FALSE, db, db), db)
    /\ UNCHANGED env

\* app/api/endpoints.py: POST /videos/process/batch. The HTTPException(404)
\* of the existence check is raised inside the try and caught by its
\* except Exception, as is the TypeError of a call with a keyword that
\* batch_process_videos does not have: both leave as status 500.
ApiBatch(video_paths, extract_hardcoded) ==
    /\ job = Idle /\ call = NoCall
    /\ IF \E i \in 1..Len(video_paths) : ~exists(video_paths[i])
       THEN /\ last' = [op |-> "process_videos_batch", paths |-> video_paths,
                        extract_hardcoded |-> extract_hardcoded,
                        status_code |-> 500, detail |-> "404: Video file not found",
                        results |-> <<>>, escaped |-> FALSE]
            /\ job' = job
       ELSE IF ~({"video_paths", "extract_hardcoded"} \subseteq BatchParameters)
       THEN /\ last' = [op |-> "process_videos_batch", paths |-> video_paths,
                        extract_hardcoded |-> extract_hardcoded,
                        status_code |-> 500, detail |-> "TypeError",
                        results |-> <<>>, escaped |-> FALSE]
            /\ job' = job
       ELSE Batch("process_videos_batch", video_paths)
    /\ UNCHANGED <<db, call, env>>

\* VideoProcessor.batch_process_videos: one turn of the loop
BatchStep ==
    /\ job.kind = "batch" /\ call = NoCall
    /\ LET video_path == job.paths[Len(job.results) + 1]
       IN Enter(Activation("batch_process_videos", video_path, FALSE, db, db), db)
    /\ UNCHANGED env

\* process_video, lines 231-263: the metadata queries
FetchMetadata ==
    /\ call.stage = "fetch_metadata"
    /\ \E q \in QueryOutcomes(basename(dirname(call.path))) :
         LET got == get_metadata(call.path, q)
         IN call' = [call EXCEPT !.stage = "extract",
                                 !.video_info = got.video_info,
                                 !.calls.fetch = got.fetches]
    /\ UNCHANGED <<db, job, last, env>>

\* process_video, lines 265-269: the extraction of embedded subtitles
Extract ==
    /\ call.stage = "extract"
    /\ \E probe \in ProbeOutcomes(call.path) :
         LET subtitle_result == extract(call.path, probe)
         IN call' = [call EXCEPT !.stage = after_extract(subtitle_result),
                                 !.subtitle_result = subtitle_result,
                                 !.extracted = subtitle_result,
                                 !.yield.extract = Len(subtitle_result.subtitles),
                                 !.calls.extract = 1]
    /\ UNCHANGED <<db, job, last, env>>

\* process_video, lines 270-275: the remote search
FetchFromWeb ==
    /\ call.stage = "web"
    /\ \E web \in WebOutcomes :
         LET web_subtitle_result == _fetch_subtitles_from_web(call.video_info, web)
         IN call' = [call EXCEPT !.stage = "save",
                                 !.subtitle_result = choose_subtitles(@, web_subtitle_result),
                                 !.search = search_request(call.video_info, web),
                                 !.yield.web = IF web_subtitle_result = None THEN 0
                                               ELSE Len(web_subtitle_result.subtitles),
                                 !.calls.web = 1]
    /\ UNCHANGED <<db, job, last, env>>

\* process_video, lines 277-288: the record is completed, saved and returned
Save ==
    /\ call.stage = "save"
    /\ \E write \in WriteOutcomes(fs) :
         LET video_info == update_video_info(call.video_info, call.subtitle_result)
             file == save_video_info(db, video_info, write)
         IN /\ db' = file
            /\ Return([call EXCEPT !.calls.save = 1, !.write = write],
                      video_info, FALSE, file)
    /\ UNCHANGED env

\* DatabaseManager.save_video_info, called directly (test_db_save.py)
SaveVideoInfo(video_info) ==
    /\ job = Idle /\ call = NoCall
    /\ \E read \in ReadOutcomes(fs), write \in WriteOutcomes(fs) :
         LET seen == Seen(db, read)
             after == Left(db, seen, save_video_info(seen, video_info, write))
         IN /\ db' = after
            /\ last' = [op |-> "save_video_info", path |-> video_info.path,
                        stored |-> RecordsOf(db, video_info.path) # <<>>,
                        video_info |-> video_info, read |-> read, write |-> write,
                        others_kept |-> Others(after, video_info.path)
                                            = Others(db, video_info.path)]
    /\ UNCHANGED <<job, call, env>>

\* DatabaseManager.delete_video, called directly (the delete command)
DeleteVideo(video_path) ==
    /\ job = Idle /\ call = NoCall
    /\ \E read \in ReadOutcomes(fs), write \in WriteOutcomes(fs) :
         LET seen == Seen(db, read)
             del == delete_video(seen, video_path, write)
             after == Left(db, seen, del.file)
         IN /\ db' = after
            /\ last' = [op |-> "delete_video", path |-> video_path,
                        stored |-> RecordsOf(db, video_path) # <<>>,
                        deleted |-> del.deleted, read |-> read, write |-> write,
                        others_kept |-> Others(after, video_path)
                                            = Others(db, video_path)]
    /\ UNCHANGED <<job, call, env>>

\* the record test_db_save.py saves, for a path of the model
TestRecord(path) ==
    [path |-> path, name |-> "The Handmaiden", status |-> "completed",
     metadata |-> [title |-> "The Handmaiden", imdb_id |-> "tt4016934", language |-> "Korean"],
     subtitle_source |-> "web",
     subtitles |-> <<[language |-> "en", content_path |-> <<path, "en">>]>>]

Next ==
    \/ \E path \in Arguments : ProcessVideo(path)
    \/ \E path \in Paths, force \in BOOLEAN : CliProcess(path, force)
    \/ \E path \in Paths, force \in BOOLEAN : AnimeFile(path, force)
    \/ \E directory \in Directories, force \in BOOLEAN : AnimeDirStart(directory, force)
    \/ AnimeDirStep
    \/ \E video_paths \in SeqsUpTo(Arguments, MaxBatch) : BatchStart(video_paths)
    \/ \E video_paths \in SeqsUpTo(Paths, MaxBatch), extract_hardcoded \in BOOLEAN :
          ApiBatch(video_paths, extract_hardcoded)
    \/ \E path \in Paths, extract_hardcoded \in BOOLEAN : ApiProcess(path, extract_hardcoded)
    \/ ApiProcessStep
    \/ BatchStep
    \/ FetchMetadata
    \/ Extract
    \/ FetchFromWeb
    \/ Save
    \/ \E path \in Paths : SaveVideoInfo(TestRecord(path))
    \/ \E path \in Paths : DeleteVideo(path)

Spec == Init /\ [][Next]_vars

SpecFaults == InitFaults /\ [][Next]_vars

----------------------------------------------------------------------------
(* app/subtitle/extractor.py, called on its own *)

InitExtract ==
    /\ db = EmptyDb
    /\ job = Idle
    /\ call = NoCall
    /\ last = Nothing
    /\ fs = "reliable"
    /\ \E media \in Media : cascade = [media |-> media, found |-> NotRun]
    /\ unit = NoUnit
    /\ workers = NoWorkers

ExtractEmbedded ==
    /\ cascade.found = NotRun
    /\ LET r == extract_embedded(PathA, cascade.media.probe)
       IN cascade' = [cascade EXCEPT !.found = [op |-> "extract_embedded",
                                               raised |-> r.raised, results |-> r.results]]
    /\ UNCHANGED <<db, job, call, last, fs, unit, workers>>

ExtractExternal(video_path) ==
    /\ cascade.found = NotRun
    /\ cascade' = [cascade EXCEPT !.found =
                      [op |-> "extract_external", raised |-> FALSE,
                       video_path |-> video_path,
                       results |-> extract_external(video_path, cascade.media.files)]]
    /\ UNCHANGED <<db, job, call, last, fs, unit, workers>>

ExtractClosedCaptions ==
    /\ cascade.found = NotRun
    /\ cascade' = [cascade EXCEPT !.found =
                      [op |-> "extract_closed_captions", raised |-> FALSE,
                       results |-> extract_closed_captions(PathA, cascade.media.cc)]]
    /\ UNCHANGED <<db, job, call, last, fs, unit, workers>>

ExtractWithCcextractor ==
    /\ cascade.found = NotRun
    /\ LET r == extract_with_ccextractor(PathA, cascade.media.cc)
       IN cascade' = [cascade EXCEPT !.found = [op |-> "extract_with_ccextractor",
                                               raised |-> r.raised, results |-> r.results]]
    /\ UNCHANGED <<db, job, call, last, fs, unit, workers>>

ExtractAll ==
    /\ cascade.found = NotRun
    /\ LET r == extract_all(PathA, cascade.media)
       IN cascade' = [cascade EXCEPT !.found = [op |-> "extract_all",
                                               raised |-> r.raised, results |-> r.results,
                                               decoder |-> r.decoder]]
    /\ UNCHANGED <<db, job, call, last, fs, unit, workers>>

\* app/subtitle.py: SubtitleExtractor.extract on the same container
ExtractSubtitles ==
    /\ cascade.found = NotRun
    /\ cascade' = [cascade EXCEPT !.found =
                      [op |-> "extract", raised |-> FALSE,
                       results |-> extract(PathA, cascade.media.probe).subtitles]]
    /\ UNCHANGED <<db, job, call, last, fs, unit, workers>>

\* app/subtitle/extractor.py: SubtitleExtractor.extract_subtitles
ExtractWithFallback(video_path) ==
    /\ cascade.found = NotRun
    /\ cascade.media.probe \in ProbeOutcomes(video_path)
    /\ LET r == extract_subtitles(video_path, cascade.media)
       IN cascade' = [cascade EXCEPT !.found = [op |-> "extract_subtitles",
                                               raised |-> r.raised, results |-> r.results,
                                               decoder |-> r.decoder]]
    /\ UNCHANGED <<db, job, call, last, fs, unit, workers>>

NextExtract ==
    \/ \E video_path \in Paths : ExtractWithFallback(video_path)
    \/ ExtractEmbedded
    \/ \E video_path \in {PathA, PathBracket} : ExtractExternal(video_path)
    \/ ExtractClosedCaptions
    \/ ExtractWithCcextractor
    \/ ExtractAll
    \/ ExtractSubtitles

SpecExtract == InitExtract /\ [][NextExtract]_vars

----------------------------------------------------------------------------
(* Functions of the repository, each called once on its own *)

rest == <<db, job, call, last, fs, cascade, workers>>

InitUnit ==
    /\ db = EmptyDb
    /\ job = Idle
    /\ call = NoCall
    /\ last = Nothing
    /\ fs = "reliable"
    /\ cascade = NoCascade
    /\ unit = NoUnit
    /\ workers = NoWorkers

\* app/metadata.py
FetchMetadataLegacy ==
    /\ unit = NoUnit
    /\ \E tmdb \in Answering({TmdbData}, MalformedTmdb),
          imdb_id \in {NoneStr, ImdbId},
          omdb \in Answering({OmdbData}, MalformedOmdb) :
          LET providers == [tmdb |-> _search_tmdb(tmdb),
                            imdb_id |-> _get_imdb_id(tmdb, imdb_id),
                            omdb |-> _search_omdb(omdb)]
          IN unit' = [fn |-> "metadata.fetch_metadata",
                      deepseek |-> NotConfigured, tmdb |-> tmdb, omdb |-> omdb,
                      raised |-> FALSE,
                      found |-> providers.tmdb,
                      bridge |-> providers.imdb_id,
                      omdb_asked |-> omdb_searched(providers),
                      result |-> fetch_metadata("A", NoYear, providers)]
    /\ UNCHANGED rest

\* app/metadata/manager.py
FetchMetadataManager ==
    /\ unit = NoUnit
    /\ \E deepseek \in Answering(DeepseekPayloads, <<>>),
          tmdb \in Answering(TmdbDetails, MalformedTmdb),
          omdb \in Answering(OmdbPayloads, MalformedOmdb) :
          unit' = [fn |-> "manager.fetch_metadata",
                   deepseek |-> deepseek, tmdb |-> tmdb, omdb |-> omdb,
                   raised |-> FALSE,
                   found |-> tmdb_update(tmdb),
                   bridge |-> Get(tmdb_update(tmdb), "imdb_id"),
                   omdb_asked |-> /\ ~Truthy(_generate_metadata_with_deepseek(deepseek))
                                  /\ omdb_requested(tmdb_update(tmdb), omdb),
                   queried |-> providers_queried(deepseek, tmdb, omdb),
                   result |-> MetadataManager_fetch_metadata(deepseek, tmdb, omdb)]
    /\ UNCHANGED rest

\* app/processor.py, process_video: the year of the parent directory
ParentDirYear ==
    /\ unit = NoUnit
    /\ \E parent_dir \in DirNames :
          unit' = [fn |-> "year", parent_dir |-> parent_dir, raised |-> FALSE,
                   result |-> year_of(parent_dir)]
    /\ UNCHANGED rest

\* app/metadata/manager.py: get_imdb_id
GetImdbId ==
    /\ unit = NoUnit
    /\ \E tmdb \in Answering(TmdbDetails, MalformedTmdb) :
          unit' = [fn |-> "get_imdb_id", tmdb |-> tmdb, raised |-> FALSE,
                   result |-> get_imdb_id(tmdb)]
    /\ UNCHANGED rest

\* app/metadata/fetcher.py
FetchMetadataFetcher ==
    /\ unit = NoUnit
    /\ \E tmdb \in Answering(FetcherTmdb, MalformedTmdb),
          omdb \in Answering(FetcherOmdb, MalformedOmdb) :
          LET r == MetadataFetcher_fetch_metadata(tmdb, omdb)
          IN unit' = [fn |-> "fetcher.fetch_metadata",
                      deepseek |-> NotConfigured, tmdb |-> tmdb, omdb |-> omdb,
                      raised |-> r.raised,
                      result |-> r.results,
                      common |-> IF r.raised THEN None
                                 ELSE extract_common_metadata(r.results)]
    /\ UNCHANGED rest

\* the "language" a stored metadata dict can hold
LanguageNames ==
    {"", "en", "EN", "English", "Korean", "korean", "Chinese", "Japanese", "Hindi", "Enets"}
\* the metadata of a video_info that reaches the search
SearchMetadata ==
    {[imdb_id |-> ImdbId, language |-> name] : name \in LanguageNames}
    \cup {[imdb_id |-> ImdbId, title |-> "A"]}

\* the subtitle service with the longer lists of candidates
SearchOutcomes ==
    WebOutcomes
    \cup {[api_key |-> TRUE, status |-> 200, data |-> cs] :
              cs \in SeqsUpTo(Candidates, MaxSearchResults)}

\* app/processor.py, _fetch_subtitles_from_web with its list of languages
FetchSubtitlesFromWeb ==
    /\ unit = NoUnit
    /\ \E metadata \in SearchMetadata, web \in SearchOutcomes :
          LET video_info == [path |-> PathA, name |-> "A", metadata |-> metadata]
          IN unit' = [fn |-> "_fetch_subtitles_from_web",
                      metadata |-> metadata, web |-> web,
                      languages_to_download |-> languages_to_download(metadata),
                      result |-> _fetch_subtitles_from_web(video_info, web)]
    /\ UNCHANGED rest

FormatTimestamp ==
    /\ unit = NoUnit
    /\ \E t \in SampleTimes :
          unit' = [fn |-> "_format_timestamp", t |-> t,
                   result |-> _format_timestamp(Seconds(t, 0))]
    /\ UNCHANGED rest

\* the samples of one run, in the order of their times
FrameTexts ==
    {frame_texts \in SeqsUpTo([timestamp : SampleTimes, text : Texts], MaxSamples) :
        \A i, j \in 1..Len(frame_texts) :
            i < j => frame_texts[i].timestamp < frame_texts[j].timestamp}

CreateSrtContent ==
    /\ unit = NoUnit
    /\ \E frame_texts \in FrameTexts :
          unit' = [fn |-> "create_srt_content", frame_texts |-> frame_texts,
                   result |-> create_srt_content(frame_texts)]
    /\ UNCHANGED rest

Recognize ==
    /\ unit = NoUnit
    /\ \E filename \in Filenames, service \in ServiceOutcomes :
          unit' = [fn |-> "recognize", filename |-> filename, service |-> service,
                   result |-> recognize(filename, service)]
    /\ UNCHANGED rest

\* the answers of the service the batches of the model meet
BatchOutcomes ==
    {[kind |-> "ok", content |-> "Totoro"], [kind |-> "ok", content |-> "Unknown"],
     [kind |-> "unreachable", content |-> NoneStr]}

RecognizeBatch ==
    /\ unit = NoUnit
    /\ \E filenames \in SeqsUpTo(Filenames, MaxBatch) :
         \E services \in [1..Len(filenames) -> BatchOutcomes] :
            unit' = [fn |-> "recognize_batch", filenames |-> filenames,
                     services |-> services,
                     result |-> recognize_batch(filenames, services, <<>>)]
    /\ UNCHANGED rest

NextUnit ==
    \/ Recognize
    \/ RecognizeBatch
    \/ FormatTimestamp
    \/ CreateSrtContent
    \/ FetchSubtitlesFromWeb
    \/ FetchMetadataLegacy
    \/ FetchMetadataManager
    \/ FetchMetadataFetcher
    \/ GetImdbId
    \/ ParentDirYear

SpecUnit == InitUnit /\ [][NextUnit]_vars

----------------------------------------------------------------------------
(* Two requests at once: the API server runs its handlers on a pool of
   threads, and every handler works on the one store file without a lock.
   save_video_info and delete_video are taken apart into the steps another
   thread can come between: the load, the open that truncates, the dump. *)

Workers == {"w1", "w2"}
WorkerOps == {"process_video", "delete_video"}

\* the videos of this specification have no subtitle streams and the subtitle
\* service has no key: the records of a path differ in their metadata
WorkerRecords(video_path) ==
    {update_video_info(get_metadata(video_path, q).video_info, NoSubtitles) :
        q \in QueryOutcomes(basename(dirname(video_path)))}

NewWorker(op, video_path) ==
    [op |-> op, path |-> video_path,
     pc |-> IF op = "process_video" THEN "check" ELSE "load",
     info |-> None,          \* the record process_video built
     data |-> <<>>]          \* the list the worker is about to dump

InitWorkers ==
    /\ db \in {EmptyDb, [json |-> TRUE, videos |-> <<TestRecord(PathA)>>]}
    /\ job = Idle
    /\ call = NoCall
    /\ last = Nothing
    /\ fs = "reliable"
    /\ cascade = NoCascade
    /\ unit = NoUnit
    /\ workers \in [Workers -> {NewWorker(op, video_path) :
                                     op \in WorkerOps, video_path \in Paths}]

idle == <<job, call, last, fs, cascade, unit>>

\* process_video, line 222: if self.db_manager.is_video_processed(video_path)
IsVideoProcessed(w) ==
    /\ workers[w].pc = "check"
    /\ workers' = [workers EXCEPT ![w].pc =
                       IF is_video_processed(db, workers[w].path)
                       THEN "get" ELSE "stages"]
    /\ UNCHANGED <<db, idle>>

\* line 224: return self.db_manager.get_video_info(video_path)
GetVideoInfo(w) ==
    /\ workers[w].pc = "get"
    /\ workers' = [workers EXCEPT ![w].pc = "done",
                                  ![w].info = get_video_info(db, workers[w].path)]
    /\ UNCHANGED <<db, idle>>

\* lines 226-282: the stages that do not touch the store
RunStages(w) ==
    /\ workers[w].pc = "stages"
    /\ \E video_info \in WorkerRecords(workers[w].path) :
         workers' = [workers EXCEPT ![w].pc = "load", ![w].info = video_info]
    /\ UNCHANGED <<db, idle>>

\* data = self._load_db() and the change of the list, in save_video_info
\* (lines 72-82) and in delete_video (lines 95-103)
LoadDb(w) ==
    /\ workers[w].pc = "load"
    /\ IF workers[w].op = "process_video"
       THEN workers' = [workers EXCEPT
                ![w].pc = "open",
                ![w].data = save_video_info(db, workers[w].info, "ok").videos]
       ELSE LET d == delete_video(db, workers[w].path, "ok")
            IN workers' = [workers EXCEPT
                   ![w].pc = IF d.deleted THEN "open" ELSE "done",
                   ![w].data = d.file.videos]
    /\ UNCHANGED <<db, idle>>

\* _save_db, line 31: open(self.db_file, "w") leaves the file empty
OpenDb(w) ==
    /\ workers[w].pc = "open"
    /\ db' = Truncated
    /\ workers' = [workers EXCEPT ![w].pc = "dump"]
    /\ UNCHANGED idle

\* how long the text of a list of records is, in fields
RECURSIVE text_length(_)
text_length(videos) ==
    IF videos = <<>> THEN 0
    ELSE LET video == Head(videos)
         IN 1 + (IF video.metadata = None THEN 0
                 ELSE Cardinality(DOMAIN video.metadata))
              + Len(video.subtitles) + text_length(Tail(videos))

\* _save_db, line 32: json.dump and the close write the text at the start of
\* the file.  The file is empty since this thread's open unless another
\* thread dumped after it; of a longer text of that thread the tail stays
\* behind the text of this one, and the file is no JSON.
DumpDb(w) ==
    /\ workers[w].pc = "dump"
    /\ db' = IF db.json /\ text_length(db.videos) > text_length(workers[w].data)
             THEN Truncated
             ELSE [json |-> TRUE, videos |-> workers[w].data]
    /\ workers' = [workers EXCEPT ![w].pc = "done"]
    /\ UNCHANGED idle

NextWorkers ==
    \E w \in Workers :
        \/ IsVideoProcessed(w)
        \/ GetVideoInfo(w)
        \/ RunStages(w)
        \/ LoadDb(w)
        \/ OpenDb(w)
        \/ DumpDb(w)

SpecWorkers == InitWorkers /\ [][NextWorkers]_vars

----------------------------------------------------------------------------
(* The claims *)

\* the entry points that work on one path
SingleOps == {"process_video", "cli.process", "test_anime_file", "test_anime_dir"}
\* the entry points that offer a force option
ForceOps == {"cli.process", "test_anime_file", "test_anime_dir"}

\* C1: process_video on a path that already has a record returns that
\* record, leaves the store file as it was, and makes no metadata fetch, no
\* extraction, no remote search and no save.
C1_StoredPathIsNotReprocessed ==
    (last.op = "process_video" /\ last.stored) =>
        /\ ~last.escaped
        /\ last.returned_stored
        /\ last.unchanged
        /\ last.calls = NoCalls

\* process_video returned the record of a path stored next to another one
C1_Witness ==
    /\ last.op = "process_video"
    /\ last.stored
    /\ last.returned_stored
    /\ last.result.status = "completed"
    /\ Len(_load_db(db)) = 2

\* C2: at every entry point with a force option, forcing a path that has a
\* record deletes the record first, so that the pipeline runs again (it
\* extracts and saves) and the store ends with exactly one record of the path.
C2_ForceDeletesThenReprocesses ==
    (last.op \in ForceOps /\ last.force /\ last.stored) =>
        /\ last.deleted
        /\ last.calls.extract = 1
        /\ last.calls.save = 1
        /\ Len(RecordsOf(db, last.path)) = 1

\* C3: the store never holds two records with the same path.
C3_OneRecordPerPath ==
    \A i, j \in 1..Len(db.videos) :
        i # j => db.videos[i].path # db.videos[j].path

\* a record was saved for a path that already had one, and the store holds
\* the new record only
C3_Witness ==
    /\ last.op = "save_video_info"
    /\ last.stored
    /\ RecordsOf(db, last.path) = <<last.video_info>>
    /\ Len(db.videos) = 2

\* C4: a batch, called directly or through the API endpoint, returns one
\* result per input path, in input order, no exception ending it.
C4_OneResultPerPathInOrder ==
    (last.op \in {"batch_process_videos", "process_videos_batch"}) =>
        /\ ~last.escaped
        /\ Len(last.results) = Len(last.paths)
        /\ \A i \in 1..Len(last.paths) : last.results[i].path = last.paths[i]

\* C5: in a batch over a path on disk and a path that is not on disk, in
\* either order, the first has a completed result and the second an error
\* result and no record.
C5_MissingPathIsAnError ==
    (/\ last.op = "batch_process_videos"
     /\ last.paths \in {<<PathA, PathGone>>, <<PathGone, PathA>>}) =>
        /\ Len(last.results) = 2
        /\ \A i \in 1..2 :
              IF exists(last.paths[i])
              THEN last.results[i].status = "completed"
              ELSE /\ last.results[i].status = "error"
                   /\ RecordsOf(db, last.paths[i]) = <<>>

\* C6: no exception leaves process_video: a call that fails returns a
\* result with status "error" and the message, and a batch with a failing
\* item ends with that result at the item's place.
C6_FailuresAreCaptured ==
    /\ (last.op = "process_video" /\ last.path \notin Paths) =>
          /\ ~last.escaped
          /\ last.result.path = last.path
          /\ last.result.status = "error"
          /\ last.result.error = "TypeError"
    /\ (last.op = "batch_process_videos") =>
          /\ ~last.escaped
          /\ \A i \in 1..Len(last.paths) :
                last.paths[i] \notin Paths =>
                    /\ last.results[i].status = "error"
                    /\ last.results[i].error = "TypeError"

\* a batch whose first item failed went on to complete its second item
C6_Witness ==
    /\ last.op = "batch_process_videos"
    /\ last.paths = <<NotAPath, PathA>>
    /\ last.results[1].status = "error"
    /\ last.results[2].status = "completed"

\* C7: when the write of the store file fails the result is an error, and
\* a result with status completed means the path has a record afterwards.
C7_CompletedMeansPersisted ==
    (last.op \in SingleOps /\ last.calls.save = 1) =>
        /\ last.write # "ok" => last.result.status = "error"
        /\ last.result.status = "completed" => RecordsOf(db, last.path) # <<>>

\* the artifacts of a source type among results
OfType(results, source_type) ==
    SelectSeq(results, LAMBDA r : r.source_type = source_type)

\* the streams of the container that ffmpeg extracts
Extractable(probe) ==
    IF probe.raised \/ probe.rc # 0 THEN <<>>
    ELSE SelectSeq(probe.streams, LAMBDA stream : stream.rc = 0)

C9_OneArtifactPerLanguage ==
    (cascade.found.op \in {"extract_embedded", "extract_all"}) =>
        \A i, j \in 1..Len(cascade.found.results) :
            i # j => cascade.found.results[i].language # cascade.found.results[j].language

\* C10: when neither the extraction nor the remote search produced an
\* artifact, the result has status completed and an empty subtitle list and,
\* the write of the store file having succeeded, is the record of the path.
C10_NoSubtitlesIsCompleted ==
    (last.op \in SingleOps /\ last.calls.extract = 1 /\ last.yield = NoYield) =>
        /\ ~last.escaped
        /\ last.result.status = "completed"
        /\ last.result.subtitles = <<>>
        /\ last.calls.save = 1
        /\ last.write = "ok" => RecordsOf(db, last.path) = <<last.result>>

\* both stages ran and produced nothing, and the record was saved
C10_Witness ==
    /\ last.op = "process_video"
    /\ last.calls.extract = 1
    /\ last.calls.web = 1
    /\ last.yield = NoYield
    /\ last.write = "ok"
    /\ RecordsOf(db, last.path) = <<last.result>>
    /\ last.result.subtitle_source = "none"

\* C11: no exception leaves extract, extract_embedded, extract_all or
\* extract_subtitles, whatever the probe, the extraction of a stream or the
\* caption decoder does.
C11_StagesNeverRaise ==
    (cascade.found.op \in {"extract", "extract_embedded", "extract_all",
                           "extract_subtitles"}) =>
        ~cascade.found.raised

\* the three aggregators over the metadata providers
Aggregators ==
    {"metadata.fetch_metadata", "manager.fetch_metadata", "fetcher.fetch_metadata"}

\* C12: whatever each provider does (not configured, not reachable, an error
\* status, no match, a malformed payload or an answer), fetch_metadata does not
\* raise and returns a record, and the title of a TMDB that answered is in
\* what it returns unless a provider of higher precedence answered.
C12_AggregateNeverFails ==
    (unit.fn \in Aggregators) =>
        /\ ~unit.raised
        /\ unit.result # None
        /\ (unit.tmdb.kind = "ok" /\ unit.deepseek.kind # "ok") =>
               IF unit.fn = "fetcher.fetch_metadata"
               THEN "tmdb" \in DOMAIN unit.result
               ELSE Get(unit.result, "title") = unit.tmdb.data.title

\* the value a provider supplies for a field: None unless it answered
Supplied(provider, field) ==
    IF provider.kind = "ok" THEN Get(provider.data, field) ELSE NoneStr

\* the value of the first provider, in the order of precedence, that supplies one
FirstSupplied(values) ==
    IF \E i \in 1..Len(values) : values[i] # NoneStr
    THEN values[CHOOSE i \in 1..Len(values) :
                    /\ values[i] # NoneStr
                    /\ \A j \in 1..(i - 1) : values[j] = NoneStr]
    ELSE NoneStr

\* OMDB is asked by manager.py when DeepSeek gave nothing and TMDB gave an IMDb id
OmdbAsked ==
    /\ unit.deepseek.kind # "ok"
    /\ Supplied(unit.tmdb, "imdb_id") # NoneStr

\* C13: in the merge every scalar field carries the value of the first
\* provider, in the order of precedence, that supplies one: a provider of
\* lower precedence never overwrites it, and fills it when it is empty.
C13_ScalarsByPrecedence ==
    /\ (unit.fn = "manager.fetch_metadata") =>
          LET from_omdb(field) == IF OmdbAsked THEN Supplied(unit.omdb, field) ELSE NoneStr
              from_tmdb(field) == IF unit.deepseek.kind # "ok"
                                  THEN Supplied(unit.tmdb, field) ELSE NoneStr
          IN /\ Get(unit.result, "title") =
                    FirstSupplied(<<Supplied(unit.deepseek, "title"),
                                    from_tmdb("title"), from_omdb("Title")>>)
             /\ Get(unit.result, "runtime") =
                    FirstSupplied(<<Supplied(unit.deepseek, "runtime"),
                                    from_tmdb("runtime"), from_omdb("Runtime")>>)
    /\ (unit.fn = "fetcher.fetch_metadata" /\ ~unit.raised) =>
          /\ unit.common.title =
                 FirstSupplied(<<Supplied(unit.tmdb, "title"), Supplied(unit.omdb, "Title")>>)
          /\ unit.common.plot =
                 FirstSupplied(<<Supplied(unit.tmdb, "overview"), Supplied(unit.omdb, "Plot")>>)

\* a name without its surrounding whitespace and in lower case
Folded(name) ==
    CASE name \in {"Drama", " drama"} -> "drama"
      [] name = "Comedy" -> "comedy"
      [] name \in {"Keanu", "keanu "} -> "keanu"
      [] OTHER -> name

\* the names a provider supplies in a list field
SuppliedNames(provider, field) ==
    IF provider.kind = "ok"
    THEN {Folded(provider.data[field][i]) : i \in 1..Len(provider.data[field])}
    ELSE {}

\* merged is the union of the two sets of names, each name once
UnionOnce(merged, names) ==
    /\ {Folded(merged[i]) : i \in 1..Len(merged)} = names
    /\ \A i, j \in 1..Len(merged) : Folded(merged[i]) = Folded(merged[j]) => i = j

\* C14: the merged genres and the merged actors are the union of what the
\* providers supply, and names that differ only in letter case or surrounding
\* whitespace are in the merged list once.
C14_ListsAreUnion ==
    (unit.fn = "fetcher.fetch_metadata" /\ ~unit.raised) =>
        /\ UnionOnce(unit.common.genres,
                     SuppliedNames(unit.tmdb, "genres") \cup SuppliedNames(unit.omdb, "Genre"))
        /\ UnionOnce(unit.common.actors,
                     SuppliedNames(unit.tmdb, "cast") \cup SuppliedNames(unit.omdb, "Actors"))

\* the records of the path that are left when op ran last
LeftBy(op) == IF op = "process_video" THEN 1 ELSE 0

\* C15: when two operations on the same path have run at once, the store holds
\* for the path what it holds after the two ran one after the other in one of
\* the two orders: the path has the record that the operation that came last
\* leaves, one after process_video and none after delete_video.
C15_AsInSomeSerialOrder ==
    (/\ \A w \in DOMAIN workers : workers[w].pc = "done"
     /\ \A v, w \in DOMAIN workers : workers[v].path = workers[w].path) =>
        \A path \in {workers[w].path : w \in DOMAIN workers} :
            Len(RecordsOf(db, path)) \in {LeftBy(workers[w].op) : w \in DOMAIN workers}

\* the code the language list is to hold for a language name
ExpectedCode(name) ==
    CASE name \in {"Korean", "korean"} -> "ko"
      [] name = "Chinese" -> "zh"
      [] name = "Japanese" -> "ja"
      [] name = "Hindi" -> "hi"
      [] name = "Enets" -> "en"
      [] OTHER -> "en"
English == {"en", "EN", "English"}

\* C16: the languages of the remote search start with "en", hold "en" once
\* and hold at most two codes; with a known language that is not English the
\* list also holds the code of that language, from the table of names or
\* else its first two letters in lower case, and else it holds "en" alone.
C16_EnglishThenOriginal ==
    (unit.fn = "_fetch_subtitles_from_web") =>
        LET languages == unit.languages_to_download
            name == Get(unit.metadata, "language")
        IN /\ Len(languages) \in {1, 2}
           /\ languages[1] = "en"
           /\ \A i \in 2..Len(languages) : languages[i] # "en"
           /\ IF name \in {NoneStr, ""} \cup English
              THEN languages = <<"en">>
              ELSE InSeq(ExpectedCode(name), languages)

\* the search of test_subtitle_download.py: a Korean film
C16_Witness ==
    /\ unit.fn = "_fetch_subtitles_from_web"
    /\ Get(unit.metadata, "language") = "Korean"
    /\ unit.languages_to_download = <<"en", "ko">>
    /\ unit.web.status = 200 /\ unit.web.data # <<>>

\* the language a file next to the video is to be reported with
SidecarLanguage(file) == IF file.code = NoCode THEN "unknown" ELSE file.code

\* C17: extract_external reports every subtitle file next to the video once,
\* <stem>.<code><ext> with the two-letter code as its language and
\* <stem><ext> with the language "unknown", and reports nothing else.
C17_EachSidecarOnce ==
    (cascade.found.op = "extract_external") =>
        LET results == cascade.found.results
            video_path == cascade.found.video_path
        IN /\ Len(results) = Cardinality(cascade.media.files)
           /\ \A file \in cascade.media.files :
                 \E i \in 1..Len(results) :
                    /\ results[i].content_path = <<video_path, file.code, file.ext>>
                    /\ results[i].language = SidecarLanguage(file)

\* a time of whole milliseconds as HH, MM, SS and mmm, each in decimal digits
Rendered(t) ==
    LET two(n) == <<n \div 10, n % 10>>
        three(n) == <<n \div 100, (n \div 10) % 10, n % 10>>
    IN <<two(t \div 3600000), two((t \div 60000) % 60), two((t \div 1000) % 60),
         three(t % 1000)>>

\* the samples whose text is more than whitespace
Surviving(frame_texts) ==
    SelectSeq(frame_texts, LAMBDA ft : ft.text \notin {"", "  "})

\* C18: the OCR document has one cue for every surviving sample, numbered from
\* 1 on; cue i starts at the time of sample i and ends at the time of sample
\* i + 1, and the last cue ends 5.0 s after its start.
C18_CuesFollowSamples ==
    (unit.fn = "create_srt_content") =>
        LET kept == Surviving(unit.frame_texts)
            cues == unit.result
        IN /\ Len(cues) = Len(kept)
           /\ \A i \in 1..Len(cues) :
                 /\ cues[i].number = i
                 /\ cues[i].text = kept[i].text
                 /\ cues[i].start = Rendered(kept[i].timestamp)
                 /\ cues[i].end = IF i < Len(kept)
                                  THEN Rendered(kept[i + 1].timestamp)
                                  ELSE Rendered(kept[i].timestamp + LastCue)

\* C19: a time of t whole milliseconds is formatted as HH:MM:SS,mmm with
\* HH = t div 3600000, MM = (t div 60000) mod 60, SS = (t div 1000) mod 60 and
\* mmm = t mod 1000, in two, two, two and three digits.
C19_TimestampFields ==
    (unit.fn = "_format_timestamp") => unit.result = Rendered(unit.t)

\* the answers that are the sentinel, in any case and with any whitespace around
Sentinels == {"unknown", "Unknown", "UNKNOWN", " Unknown "}

\* C20: when the recognition service answers "unknown", in any letter case
\* and whatever whitespace surrounds it, recognize returns None; every other
\* answer is returned, without the whitespace around it, as the title.
C20_UnknownIsNone ==
    (unit.fn = "recognize" /\ unit.service.kind = "ok") =>
        IF unit.service.content \in Sentinels
        THEN unit.result = NoneStr
        ELSE /\ unit.result # NoneStr
             /\ unit.result = strip(unit.service.content)

\* the service answered " Unknown " and recognize returned None
C20_Witness ==
    /\ unit.fn = "recognize"
    /\ unit.service = [kind |-> "ok", content |-> " Unknown "]
    /\ unit.result = NoneStr

\* a list without its i-th element
Without(s, i) == SubSeq(s, 1, i - 1) \o SubSeq(s, i + 1, Len(s))

\* the recognition of item i failed: the service did not answer, or it
\* answered that it does not know the title
FailedItem(i) == recognize(unit.filenames[i], unit.services[i]) = NoneStr

\* C21: recognize_batch returns an entry for every input filename; the entry
\* of an item whose recognition failed is None, and the entries of all the
\* other items are what the batch without that item returns for them.
C21_ItemsAreIndependent ==
    (unit.fn = "recognize_batch") =>
        /\ \A i \in 1..Len(unit.filenames) : unit.filenames[i] \in DOMAIN unit.result
        /\ \A i \in 1..Len(unit.filenames) :
              FailedItem(i) =>
                 /\ unit.result[unit.filenames[i]] = NoneStr
                 /\ LET others == recognize_batch(Without(unit.filenames, i),
                                                  Without(unit.services, i), <<>>)
                    IN \A j \in 1..Len(unit.filenames) :
                          j # i => unit.result[unit.filenames[j]]
                                      = others[unit.filenames[j]]

\* C22: a process_video attempt goes on without a canonical name: it runs the
\* metadata and subtitle stages with a working title that is the cleaned
\* file name of the video, and it can end as completed.
C22_TitleFromCleanedFilename ==
    (/\ last.op \in SingleOps
     /\ last.calls.fetch > 0
     /\ ~last.escaped
     /\ last.result.status = "completed") =>
        last.result.name = clean_filename(basename(last.path))

\* the first provider found the film and the bridge to its IMDb id failed or
\* yielded nothing
BridgeFailed ==
    /\ unit.fn \in {"metadata.fetch_metadata", "manager.fetch_metadata"}
    /\ unit.deepseek.kind # "ok"
    /\ Truthy(unit.found)
    /\ "id" \in DOMAIN unit.found \/ "tmdb_id" \in DOMAIN unit.found
    /\ unit.bridge = NoneStr

\* C23: when the first provider found the film and the bridge from its id to
\* the IMDb id fails or yields nothing, OMDB is not asked, the aggregation
\* does not raise and it returns what the first provider gave; the bridge
\* itself never raises.
C23_BridgeFailureSkipsOmdb ==
    /\ BridgeFailed =>
          /\ ~unit.omdb_asked
          /\ ~unit.raised
          /\ unit.result = unit.found
    /\ (unit.fn = "get_imdb_id") =>
          /\ ~unit.raised
          /\ (unit.tmdb.kind # "ok") => unit.result = NoneStr

\* TMDB found the film, the bridge gave no id, OMDB would have answered,
\* and the record of TMDB came back
C23_Witness ==
    /\ BridgeFailed
    /\ unit.fn = "metadata.fetch_metadata"
    /\ unit.omdb.kind = "ok"
    /\ unit.result = TmdbData

\* C24: a closed-caption decode whose decoder exits with a status other than
\* zero, or with zero but without its output file, returns an empty result
\* and raises nothing; with status zero and the output file it returns
\* exactly one artifact, of language "unknown".
C24_DecodeFailureIsEmpty ==
    (/\ cascade.found.op \in {"extract_closed_captions", "extract_with_ccextractor"}
     /\ cascade.media.cc.has_ccextractor) =>
        /\ ~cascade.found.raised
        /\ IF cascade.media.cc.rc = 0 /\ cascade.media.cc.output
           THEN /\ Len(cascade.found.results) = 1
                /\ cascade.found.results[1].language = "unknown"
           ELSE cascade.found.results = <<>>

\* C25: process_video invokes the OCR strategy only for a request that set
\* extract_hardcoded and only after every cheaper strategy yielded nothing;
\* and a single or batch request that sets the option for videos on disk
\* hands it on to the pipeline, which then runs.
C25_OcrOnlyOnRequest ==
    /\ ("calls" \in DOMAIN last /\ last.calls.ocr > 0) =>
          /\ last.op = "process_video_endpoint"
          /\ last.yield = NoYield
    /\ (job.kind = "request" /\ job.extract_hardcoded) =>
          "extract_hardcoded" \in job.passed
    /\ (/\ last.op = "process_videos_batch"
        /\ last.extract_hardcoded
        /\ \A i \in 1..Len(last.paths) : exists(last.paths[i])) =>
          last.status_code = 200

\* C26: once save_video_info(r) has returned, is_video_processed(r.path) is
\* true and get_video_info(r.path) returns a record equal to r.
C26_SaveThenLoad ==
    (last.op = "save_video_info") =>
        /\ is_video_processed(db, last.path)
        /\ get_video_info(db, last.path) = last.video_info

\* C27: delete_video(path) returns true exactly when the path had a record,
\* and after it the path has none: is_video_processed(path) is false and
\* get_video_info(path) is None, so that a second delete returns false.
C27_DeleteRemoves ==
    (last.op = "delete_video") =>
        /\ last.deleted = last.stored
        /\ ~is_video_processed(db, last.path)
        /\ get_video_info(db, last.path) = None
        /\ \A write \in WriteOutcomes(fs) :
              ~delete_video(db, last.path, write).deleted

FinalStatuses == {"completed", "error"}

\* C28: a process_video attempt that runs the pipeline returns a result whose
\* status is completed or error; the status is "processing" from the
\* creation of the record up to the one point, just before the save, where it
\* becomes completed; the record is saved at most once, and no record of the
\* store file has a status that is not final.
C28_FinalizedOnce ==
    /\ (last.op \in SingleOps /\ last.calls.fetch > 0) =>
          /\ ~last.escaped
          /\ last.result.status \in FinalStatuses
          /\ last.result.status = "completed" <=> last.calls.save = 1
    /\ (call.stage \in {"extract", "web", "save"}) =>
          /\ call.video_info.status = "processing"
          /\ call.calls.save = 0
    /\ \A i \in 1..Len(db.videos) : db.videos[i].status \in FinalStatuses

\* an attempt found a subtitle stream, was finalized as completed and its
\* record is the one the store holds
C28_Witness ==
    /\ last.op = "process_video"
    /\ last.calls.save = 1
    /\ last.yield.extract > 0
    /\ last.result.status = "completed"
    /\ RecordsOf(db, last.path) = <<last.result>>

\* C29: the stages of one attempt run in order. The working title is fixed
\* before the first metadata query; the metadata queries, the fallback with
\* the year included, are over before the remote search starts; the request
\* of the remote search takes its languages and its identifier from the
\* metadata of this attempt; and the path has no record before all of these
\* are over.
C29_StagesInOrder ==
    /\ (call.stage = "fetch_metadata") =>
          call.calls = NoCalls /\ call.video_info = None
    /\ (call.stage \in {"extract", "web", "save"}) =>
          /\ call.calls.fetch >= 1
          /\ call.calls.save = 0
          /\ call.video_info.name = movie_name_of(basename(dirname(call.path)))
          /\ ~is_video_processed(db, call.path)
    /\ (call.stage = "web") => call.calls.extract = 1 /\ call.calls.web = 0
    /\ (call.stage = "save") => call.calls.extract = 1
    /\ (call.stage = "save" /\ call.search # None) =>
          LET metadata == call.video_info.metadata
          IN /\ call.calls.web = 1
             /\ call.search.languages = languages_to_download(metadata)
             /\ (Get(metadata, "imdb_id") # NoneStr) =>
                   /\ "imdb_id" \in DOMAIN call.search
                   /\ call.search.imdb_id = without_tt(metadata.imdb_id)
             /\ (Get(metadata, "imdb_id") = NoneStr) =>
                   /\ "query" \in DOMAIN call.search
                   /\ call.search.query = metadata.title
    /\ (last.op \in SingleOps /\ last.calls.save = 1) =>
          last.calls.fetch >= 1 /\ last.calls.extract = 1

\* the remote search of an attempt asked for English and Japanese subtitles
\* of the film by the IMDb id its metadata holds
C29_Witness ==
    /\ call.stage = "save"
    /\ call.calls.web = 1
    /\ Get(call.video_info.metadata, "language") = "Japanese"
    /\ call.search = [imdb_id |-> "0133093", languages |-> <<"en", "ja">>]

\* C30: the cascade stops at the first stage that yields artifacts. The
\* remote search runs exactly when the extraction yielded nothing; when the
\* extraction yielded artifacts, these and no others are the subtitles of the
\* record; when the search yields artifacts they are; and when it yields
\* nothing the record keeps the empty result of the extraction.
C30_FirstYieldWins ==
    /\ (call.stage = "web") => call.extracted.subtitles = <<>>
    /\ (call.stage = "save") =>
          /\ call.calls.web = 1 <=> call.extracted.subtitles = <<>>
          /\ (call.extracted.subtitles # <<>>) => call.subtitle_result = call.extracted
          /\ (call.calls.web = 1 /\ call.yield.web > 0) =>
                /\ call.subtitle_result.source_type = "web"
                /\ Len(call.subtitle_result.subtitles) = call.yield.web
          /\ (call.calls.web = 1 /\ call.yield.web = 0) =>
                call.subtitle_result = NoSubtitles
    /\ (last.op \in SingleOps /\ last.calls.save = 1) =>
          /\ last.calls.web = 1 <=> last.yield.extract = 0
          /\ (last.yield.extract > 0) =>
                /\ last.result.subtitle_source = "embedded"
                /\ Len(last.result.subtitles) = last.yield.extract
          /\ (last.yield = NoYield) => last.result.subtitles = <<>>
          /\ (last.write = "ok") => RecordsOf(db, last.path) = <<last.result>>

\* the extraction yielded two artifacts, no search was made, and the two are
\* about to be saved
C30_Witness ==
    /\ call.stage = "save"
    /\ call.calls.web = 0
    /\ Len(call.extracted.subtitles) = 2
    /\ call.subtitle_result = call.extracted

\* an artifact that the closed-caption decoder produced
Caption(r) ==
    IF "source_type" \in DOMAIN r THEN r.source_type = "closed_caption"
    ELSE r.path[2] = "cc"

\* C31: extract_all and extract_subtitles call the closed-caption decoder
\* only when the stages before it (the embedded extraction and, in
\* extract_all, the scan for files next to the video) yielded no artifact;
\* when one of them yielded an artifact the decoder is not called and the
\* result holds no closed-caption artifact.
C31_DecoderIsLastResort ==
    (cascade.found.op \in {"extract_all", "extract_subtitles"}) =>
        LET results == cascade.found.results
            captions == SelectSeq(results, Caption)
            others == SelectSeq(results, LAMBDA r : ~Caption(r))
        IN /\ cascade.found.decoder => others = <<>>
           /\ (others # <<>>) => (~cascade.found.decoder /\ captions = <<>>)
           /\ (captions # <<>>) => cascade.found.decoder
           /\ (Extractable(cascade.media.probe) # <<>>) => ~cascade.found.decoder
           /\ (cascade.found.op = "extract_all" /\ cascade.media.files # {}) =>
                 ~cascade.found.decoder

\* extract_all found neither stream nor file, called the decoder and
\* returned its artifact
C31_Witness ==
    /\ cascade.found.op = "extract_all"
    /\ cascade.found.decoder
    /\ Len(cascade.found.results) = 1
    /\ Caption(cascade.found.results[1])

\* C32: in MetadataManager.fetch_metadata a record of the generative
\* provider that is not empty is returned as it is and neither TMDB nor OMDB
\* is queried; TMDB and OMDB are queried only when the generative provider
\* has no key, fails or returns nothing, and then TMDB before OMDB.
C32_GenerativeFirst ==
    (unit.fn = "manager.fetch_metadata") =>
        LET generated == _generate_metadata_with_deepseek(unit.deepseek)
            structured == SelectSeq(unit.queried, LAMBDA p : p # "deepseek")
        IN /\ Truthy(generated) =>
                 /\ unit.result = unit.deepseek.data
                 /\ structured = <<>>
           /\ (structured # <<>>) =>
                 /\ unit.deepseek.kind # "ok"
                 /\ structured \in {<<"tmdb">>, <<"tmdb", "omdb">>}
           /\ \A i \in 1..Len(unit.queried) :
                 unit.queried[i] = "deepseek" => i = 1

\* DeepSeek answered with a record while TMDB and OMDB had one too: only
\* DeepSeek was queried and its record came back
C32_Witness ==
    /\ unit.fn = "manager.fetch_metadata"
    /\ unit.deepseek.kind = "ok"
    /\ unit.tmdb.kind = "ok" /\ unit.tmdb.data.imdb_id = ImdbId
    /\ unit.omdb.kind = "ok"
    /\ unit.queried = <<"deepseek">>
    /\ unit.result = unit.deepseek.data

\* DeepSeek failed, and TMDB and then OMDB were queried
C32_Fallback ==
    /\ unit.fn = "manager.fetch_metadata"
    /\ unit.deepseek.kind = "error_status"
    /\ unit.queried = <<"deepseek", "tmdb", "omdb">>
    /\ "rated" \in DOMAIN unit.result

\* the places of a directory name where a bracketed segment of exactly four
\* digits begins
BracketedYears(name) ==
    {i \in 1..(Len(name) - 5) :
        /\ name[i] = "["
        /\ name[i + 5] = "]"
        /\ isdigit(SubSeq(name, i + 1, i + 4))}

\* C33: the year of the second metadata query is the first bracketed segment
\* of exactly four digits of the name of the parent directory, and there is
\* a year only when the name has such a segment.
C33_YearIsFirstBracketed ==
    (unit.fn = "year" /\ unit.result # NoYear) =>
        LET name == chars(unit.parent_dir)
            found == BracketedYears(name)
        IN /\ found # {}
           /\ LET i == CHOOSE k \in found : \A j \in found : k <= j
              IN unit.result = int(SubSeq(name, i + 1, i + 4))

\* the name "A [1999] [2001]" gives the year 2001
C33_SecondSegmentTaken ==
    /\ unit.fn = "year"
    /\ unit.parent_dir = "A [1999] [2001]"
    /\ unit.result = 2001

\* C33 (the part on the number of queries): an attempt makes one metadata
\* query or two, two only when the first found nothing and the directory
\* name gave a year, and without a year the metadata stay empty.
C33_AtMostTwoQueries ==
    (call # NoCall /\ call.calls.fetch > 0) =>
        LET parent_dir == basename(dirname(call.path))
        IN /\ call.calls.fetch \in {1, 2}
           /\ (call.calls.fetch = 2) => year_of(parent_dir) # NoYear
           /\ (year_of(parent_dir) = NoYear /\ call.stage = "extract") =>
                 (Truthy(call.video_info.metadata) => call.calls.fetch = 1)

\* both workers ran process_video, on two paths, and each of them came to
\* save_video_info and returned from it
BothSaved ==
    /\ workers # NoWorkers
    /\ workers["w1"].path # workers["w2"].path
    /\ \A w \in Workers :
          /\ workers[w].op = "process_video"
          /\ workers[w].pc = "done"
          /\ workers[w].data # <<>>

\* C34: when two calls of save_video_info for two paths have run at once and
\* both have returned, the store holds the record of each.
C34_NoLostUpdate ==
    BothSaved =>
        \A w \in Workers : Len(RecordsOf(db, workers[w].path)) = 1

\* C35: a save_video_info or delete_video whose read of the store failed,
\* and whose write went well, leaves the records of the other paths in the
\* store.
C35_ReadFailureLosesNothing ==
    (/\ last.op \in {"save_video_info", "delete_video"}
     /\ last.read = "failed"
     /\ last.write = "ok") =>
        last.others_kept

\* C36: save_video_info and delete_video, from a store that was read, leave
\* the records of the other paths and their order as they were, and
\* process_video of a path that has a record leaves the whole store as it was.
C36_OnlyOwnRecordChanges ==
    /\ (last.op \in {"save_video_info", "delete_video"} /\ last.read = "ok") =>
          last.others_kept
    /\ (last.op = "process_video" /\ last.stored) =>
          /\ last.unchanged
          /\ last.returned_stored

\* a record was saved, or one deleted, in a store that held a record of
\* the other path
C36_OtherRecordPresent ==
    /\ last.op \in {"save_video_info", "delete_video"}
    /\ last.read = "ok"
    /\ last.write = "ok"
    /\ Others(db, last.path) # <<>>

\* process_video returned a result with status "error"
ReturnedError ==
    /\ "result" \in DOMAIN last
    /\ "status" \in DOMAIN last.result
    /\ last.result.status = "error"

\* C37: when process_video returns status "error" the store file is as it
\* was before the call, the path has a record exactly when it had one, and
\* a path without a record has none afterwards, so that the next call runs
\* the stages again.
C37_ErrorStoresNothing ==
    ReturnedError =>
        /\ last.unchanged
        /\ is_video_processed(db, last.path) = last.stored
        /\ ~last.stored => get_video_info(db, last.path) = None
        /\ last.calls.save = 0

\* process_video of an argument that is no path returned status "error"
\* while the store held a record of another path
C37_Witness ==
    /\ ReturnedError
    /\ last.op = "process_video"
    /\ ~last.stored
    /\ db.json /\ db.videos # <<>>

\* the source of a record tells whether it has subtitles
SourceMatchesList(video_info) ==
    /\ video_info.subtitle_source \in {"none", "embedded", "web"}
    /\ video_info.subtitle_source = "none" <=> video_info.subtitles = <<>>

\* C38: in every record process_video returns as completed, and in every
\* record of the store, the source is "none" exactly when the list of
\* subtitles is empty and else "embedded" or "web"; the subtitles of an
\* "embedded" record are those of the extraction and no search was made, and
\* those of a "web" record are those of the search, the extraction having
\* yielded none.
C38_SourceMatchesSubtitles ==
    /\ \A i \in 1..Len(_load_db(db)) : SourceMatchesList(_load_db(db)[i])
    /\ (call.stage = "save") =>
          LET video_info == update_video_info(call.video_info, call.subtitle_result)
          IN /\ SourceMatchesList(video_info)
             /\ (video_info.subtitle_source = "embedded") =>
                   /\ video_info.subtitles = call.extracted.subtitles
                   /\ call.calls.web = 0
             /\ (video_info.subtitle_source = "web") =>
                   /\ call.extracted.subtitles = <<>>
                   /\ Len(video_info.subtitles) = call.yield.web
    /\ (last.op \in SingleOps /\ "status" \in DOMAIN last.result
                              /\ last.result.status = "completed") =>
          /\ SourceMatchesList(last.result)
          /\ (last.calls.save = 1 /\ last.result.subtitle_source = "embedded") =>
                /\ Len(last.result.subtitles) = last.yield.extract
                /\ last.yield.web = 0
          /\ (last.calls.save = 1 /\ last.result.subtitle_source = "web") =>
                /\ Len(last.result.subtitles) = last.yield.web
                /\ last.yield.extract = 0

\* the search gave the subtitles of a record that was saved with the source
\* "web"
C38_Witness ==
    /\ last.op \in SingleOps
    /\ last.calls.save = 1
    /\ last.result.subtitle_source = "web"
    /\ last.result.subtitles # <<>>
    /\ RecordsOf(db, last.path) = <<last.result>>

\* the search returned subtitles
SearchReturned ==
    /\ unit.fn = "_fetch_subtitles_from_web"
    /\ unit.result # None

\* the candidates of the search that are in a language of the list
InTarget(data, wanted) == SelectSeq(data, LAMBDA sub : InSeq(sub.language, wanted))

C40_MissingPathIs404 ==
    (/\ last.op \in {"process_video_endpoint", "process_videos_batch"}
     /\ "paths" \in DOMAIN last
     /\ \E i \in 1..Len(last.paths) : ~exists(last.paths[i])) =>
        /\ last.status_code = 404
        /\ last.results = <<>>

====
